---------------------------- MODULE Spec2Model ----------------------------
(* A model of mtdoor's dispatch engine: DoorManager (door/manager.py),     *)
(* BaseCommand (door/base_command.py) and the command plugins              *)
(* (door/commands/*.py), and of the telemetry sink (server.py).           *)
(*                                                                         *)
(* A Python str is a sequence of chunks.  Every text that the code slices, *)
(* lowercases or compares by prefix (message payloads, command words) is   *)
(* chunked one character per chunk, so that s[:n], s[n:] and len(s) are    *)
(* exact.  Texts that are only concatenated and handed on (descriptions,   *)
(* help texts, fixed reply texts) are one chunk each.                      *)
EXTENDS Integers, Sequences, FiniteSets, TLC

VARIABLES
    commands,   \* DoorManager.commands: the loaded command instances, in order
    session,    \* BaseCommand.session: the class-level dict node -> state
    turn,       \* what the last call (add_command / on_text) did
    threads,    \* per thread: the send_dm calls it has yet to make (todo) and
                \* its pub.sendMessage calls that have not returned (calls)
    topic,      \* the messages published on dm_topic, in publication order
    mesh,       \* the interface.sendText calls, in call order
    geo,        \* a call of haversine: its arguments and what it returned
    telemetry,  \* the last call of on_packet: what it was given and how it
                \* ended
    table,      \* server.py: the rows of the table packets, in rowid order
    http,       \* server.py: the last POST to /api/packet-data and its answer
    setting     \* a call of get_setting: its arguments and what it returned

vars ==
    <<commands, session, turn, threads, topic, mesh, geo, telemetry,
      table, http, setting>>

\* the telemetry sink and the settings
served == <<table, http, setting>>

\* the heat map's side of the program
heat == <<geo, telemetry, served>>

\* the reply channel
chan == <<threads, topic, mesh>>

-----------------------------------------------------------------------------
(* Bounds of the model *)

\* add_command appends only while the registry is shorter than this
MaxCommands == 2

\* add_commands is given lists of at most this many classes
MaxBatch == 2

\* threads started by run_in_thread that are alive at one time
MaxWorkers == 1

\* messages published on dm_topic in one run
MaxPublished == 3

-----------------------------------------------------------------------------
(* Python values and string helpers *)

PyNone == [type |-> "NoneType", val |-> <<>>]

PyStr(s) == [type |-> "str", val |-> s]

\* Python truthiness of a return value: None and "" are falsy
Truthy(v) == v.type = "str" /\ v.val # <<>>

UpperCase == <<"A","B","C","D","E","F","G","H","I","J","K","L","M",
               "N","O","P","Q","R","S","T","U","V","W","X","Y","Z">>

LowerCase == <<"a","b","c","d","e","f","g","h","i","j","k","l","m",
               "n","o","p","q","r","s","t","u","v","w","x","y","z">>

\* the lowercase of each uppercase letter
LowerOf ==
    [c \in {UpperCase[i] : i \in 1..Len(UpperCase)} |->
        LowerCase[CHOOSE i \in 1..Len(UpperCase) : UpperCase[i] = c]]

LowerCh(c) == IF c \in DOMAIN LowerOf THEN LowerOf[c] ELSE c

\* str.lower()
Lower(s) == [i \in 1..Len(s) |-> LowerCh(s[i])]

\* s[:n]
Take(s, n) == SubSeq(s, 1, IF n < Len(s) THEN n ELSE Len(s))

\* s[n:]
Drop(s, n) == SubSeq(s, n + 1, Len(s))

IsSpace(c) == c \in {" ", "\n", "\t"}

RECURSIVE LStrip(_)
\* str.lstrip()
LStrip(s) == IF s # <<>> /\ IsSpace(s[1]) THEN LStrip(Tail(s)) ELSE s

RECURSIVE UntilSpace(_)
UntilSpace(s) ==
    IF s = <<>> \/ IsSpace(s[1]) THEN <<>> ELSE <<s[1]>> \o UntilSpace(Tail(s))

\* s.split()[0]: the first whitespace-delimited word of s
FirstWord(s) == UntilSpace(LStrip(s))

DigitCh == <<"0","1","2","3","4","5","6","7","8","9">>

RECURSIVE Digits(_)
Digits(n) ==
    IF n < 10 THEN <<DigitCh[n + 1]>>
    ELSE Digits(n \div 10) \o <<DigitCh[(n % 10) + 1]>>

\* the f-string rendering {n} of an integer
Fmt(n) == IF n < 0 THEN <<"-">> \o Digits(0 - n) ELSE Digits(n)

RECURSIVE Join(_, _)
\* sep.join(words)
Join(sep, words) ==
    IF words = <<>> THEN <<>>
    ELSE IF Len(words) = 1 THEN words[1]
    ELSE words[1] \o sep \o Join(sep, Tail(words))

-----------------------------------------------------------------------------
(* The program's constants and the inputs of the model *)

\* interface.getMyUser()["id"]
me == "!me"

Nodes == {"!a", "!b"}

\* the command classes offered to add_command: the repository's Echo and
\* Msg, and three further BaseCommand subclasses that exercise the plugin
\* contract (optional description/help, any invoke outcome)
Echo ==
    [cls |-> "Echo", command |-> <<"e","c","h","o">>,
     description |-> <<"'echo' repeats your message back to you">>,
     help |-> <<"'echo <repeat this message>', or 'exit'">>]

Msg ==
    [cls |-> "Msg", command |-> <<"m","s","g">>,
     description |-> <<"Send message to node operator">>,
     help |-> <<"msg Hello node operator!">>]

\* an unset attribute (getattr(.., None)) and "" are both falsy: <<>>
PluginHe ==
    [cls |-> "PluginHe", command |-> <<"h","e">>,
     description |-> <<>>, help |-> <<>>]

PluginEc ==
    [cls |-> "PluginEc", command |-> <<"e","c">>,
     description |-> <<"ec description">>, help |-> <<>>]

PluginFo ==
    [cls |-> "PluginFo", command |-> <<"f","o">>,
     description |-> <<>>, help |-> <<"fo help">>]

CommandClasses == {Echo, Msg, PluginHe, PluginEc, PluginFo}

\* the repository's two commands that answer from a thread
RSS ==
    [cls |-> "RSS", command |-> <<"r","s","s">>,
     description |-> <<"returns headlines from RSS feeds">>,
     help |-> <<"Show feeds with 'rss list'.">>]

ChatGPT ==
    [cls |-> "ChatGPT", command |-> <<"l","l","m">>,
     description |-> <<"Talk to gpt-4o-mini">>,
     help |-> <<"'llm !clear' to clear conversation context.">>]

OffloadClasses == {RSS, ChatGPT}

\* what a plugin's load() may do
LoadOutcomes(cls) ==
    CASE cls.cls = "Echo" -> {"not_implemented"}
      [] cls.cls = "Msg"  -> {"ok"}
      [] cls.cls = "RSS"  -> {"ok"}
      [] cls.cls = "ChatGPT" -> {"ok", "error"}
      [] OTHER -> {"ok", "not_implemented", "load_error", "error"}

\* what a plugin's shutdown() may do: Echo and Msg define none
ShutdownOutcomes(cls) ==
    CASE cls.cls \in {"Echo", "Msg"} -> {"not_implemented"}
      [] OTHER -> {"ok", "not_implemented", "error"}

\* the classes, each with what its load() does, of the lists given to
\* add_commands
BatchItems ==
    { <<Echo, "not_implemented">>, <<Msg, "ok">>, <<PluginFo, "ok">>,
      <<PluginFo, "load_error">>, <<PluginEc, "error">> }

\* the lists given to add_commands
Batches ==
    UNION { [1..n -> BatchItems] : n \in 1..MaxBatch }

\* what a plugin's invoke() may do
InvokeOutcomes(cls) ==
    CASE cls = "Echo" -> {"echo"}
      [] cls = "Msg"  -> {"sent", "failed"}
      [] cls = "RSS"  -> {"feed_ok", "bad_status", "no_entries", "request_error"}
      [] cls = "ChatGPT" -> {"answer", "api_error"}
      [] OTHER -> {"none", "empty", "text", "run_error", "not_implemented", "error"}

Payloads ==
    { <<"p","i","n","g">>,
      <<"P","i","n","g"," ","x">>,
      <<"h","e","l","p">>,
      <<"h","e","l","p"," ","e","c","h","o">>,
      <<"H","e","l","p"," ","F","o">>,
      <<"h","e","l","p"," ","h","e">>,
      <<"h","e","l","p"," ","x">>,
      <<"e","c","h","o"," ","h","i">>,
      <<"E","c","h","o"," ","H","i">>,
      <<"e","x","i","t">>,
      <<"f","o","o">>,
      <<"m","s","g"," ","y","o">>,
      <<"H","e","l","l","o">>,
      <<"z","z">> }

Packet(to, from, payload, snr, rssi, hopStart, hopLimit) ==
    [toId |-> to, fromId |-> from, payload |-> payload, rxSnr |-> snr,
     rxRssi |-> rssi, hopStart |-> hopStart, hopLimit |-> hopLimit]

\* the text packets the mesh interface delivers
Packets ==
    { Packet(me, "!a", p, 8, -70, 3, 3) : p \in Payloads }
    \cup { Packet(me, "!b", p, 8, -70, 3, 3) :
             p \in { <<"h","e","l","p">>, <<"e","c","h","o"," ","h","i">>,
                     <<"H","e","l","l","o">>, <<"z","z">> } }
    \cup { Packet(me, "!a", <<"p","i","n","g">>, -12, -105, 7, 2),
           Packet(me, "!b", <<"p","i","n","g">>, 10, -9, 3, 4) }
    \cup { Packet("!b", "!a", p, 8, -70, 3, 3) :
             p \in { <<"p","i","n","g">>, <<"h","e","l","p">>,
                     <<"e","c","h","o"," ","h","i">> } }

NoPacket == Packet("", "", <<>>, 0, 0, 0, 0)


-----------------------------------------------------------------------------
(* BaseCommand and the plugins *)

\* BaseCommand.continue_session(node): self.session is the one dict that
\* BaseCommand defines at class level, which no subclass rebinds, so every
\* command instance reads the same dict
continue_session(cmd, node) == session[node] = "Echo"

\* the result of a call: the exception it raised ("none" when it returned),
\* the value it returned and the session dict it left
Result(exc, ret, sess) == [exc |-> exc, ret |-> ret, session |-> sess]

\* Echo.invoke(msg, node)
EchoInvoke(msg, node, sess) ==
    LET first == FirstWord(Lower(msg))
        tail  == <<"\n\nEnter some more text, or 'exit' to quit">>
    IN  IF first = <<"e","x","i","t">>
        THEN Result("none", PyStr(<<"Goodbye">>), [sess EXCEPT ![node] = "False"])
        ELSE Result("none",
                    PyStr((IF first = <<"e","c","h","o">> THEN Drop(msg, 5) ELSE msg)
                          \o tail),
                    [sess EXCEPT ![node] = "Echo"])

\* Msg.invoke(msg, node): the ntfy POST succeeds or raises RequestException
MsgInvoke(msg, node, sess, o) ==
    IF o = "sent"
    THEN Result("none", PyStr(<<"Message sent to the operator via ntfy.">>), sess)
    ELSE Result("none",
                PyStr(<<"Failed to send message to ntfy server: ", "<error>">>), sess)

\* invoke of any other BaseCommand subclass: it returns None, "" or a text,
\* or raises; BaseCommand.invoke itself raises CommandActionNotImplemented
PluginInvoke(msg, node, sess, o) ==
    CASE o = "none"  -> Result("none", PyNone, sess)
      [] o = "empty" -> Result("none", PyStr(<<>>), sess)
      [] o = "text"  -> Result("none", PyStr(<<"plugin reply">>), sess)
      [] o = "run_error" -> Result("CommandRunError", PyNone, sess)
      [] o = "not_implemented" -> Result("CommandActionNotImplemented", PyNone, sess)
      [] OTHER -> Result("Exception", PyNone, sess)

\* an invoke that answers "Working on it" before its thread does
OffloadInvoke_Acknowledges(msg, node, sess) ==
    Result("none", PyStr(<<"Working on it">>), sess)

\* RSS.invoke and ChatGPT.invoke: run_in_thread(..) is the whole body, so
\* the call returns None at once; the thread's part is RssFetch / LlmChat
OffloadInvoke(msg, node, sess) == Result("none", PyNone, sess)

\* rss.py FEEDS: short_name and name
FEEDS ==
    << [short_name |-> <<"b","l","o","g">>, name |-> <<"Meshtastic Blog">>],
       [short_name |-> <<"d","i","s","c","o","u","r","s","e">>,
        name |-> <<"Meshtastic Discourse">>],
       [short_name |-> <<"r","a","k">>, name |-> <<"RAK Wireless">>],
       [short_name |-> <<"s","e","e","e","d">>, name |-> <<"Seed Studio">>],
       [short_name |-> <<"h","e","l","t","e","c">>, name |-> <<"Heltec">>],
       [short_name |-> <<"t","c","2">>, name |-> <<"The Comms Channel">>],
       [short_name |-> <<"g","e","e","r","l","i","n","g">>,
        name |-> <<"Jeff Geerling">>] >>

\* the titles of a feed that answers: each with its len()
FeedTitles ==
    << [text |-> "Release notes", len |-> 90],
       [text |-> "Community update", len |-> 90],
       [text |-> "New hardware", len |-> 30] >>

\* sub in s
Contains(sub, s) ==
    \E i \in 0..(Len(s) - Len(sub)) : SubSeq(s, i + 1, i + Len(sub)) = sub

RECURSIVE RStrip(_)
\* s.rstrip()
RStrip(s) ==
    IF s # <<>> /\ IsSpace(s[Len(s)]) THEN RStrip(SubSeq(s, 1, Len(s) - 1)) ELSE s

\* RSS.list_feeds()
list_feeds ==
    <<"Installed RSS feeds:\n\n">>
    \o Join(<<"\n">>, [i \in 1..Len(FEEDS) |->
                          FEEDS[i].short_name \o <<": ">> \o FEEDS[i].name])

RECURSIVE build_reply_loop(_, _, _)
\* the for loop of RSS.build_reply: reply so far, its len(), titles left
build_reply_loop(reply, n, titles) ==
    IF titles = <<>> THEN reply
    ELSE IF n + titles[1].len + 2 > 200 THEN reply
    ELSE build_reply_loop(reply \o <<titles[1].text, "\n\n">>,
                          n + titles[1].len + 2, Tail(titles))

\* RSS.build_reply(titles): reply.strip() drops the last "\n\n"
build_reply(titles) ==
    LET reply == build_reply_loop(<<>>, 0, titles)
    IN  IF reply = <<>> THEN reply ELSE SubSeq(reply, 1, Len(reply) - 1)

\* RSS.fetch(msg, node), run in a thread: the send_dm calls it makes.  feed
\* is what the feed's server does: get_feed_titles returns None for a bad
\* status or a response without entries, and build_reply(None) raises
\* TypeError; requests.get itself may raise.  Nothing in fetch catches, so
\* the thread ends without a send_dm call
RssFetch(msg, node, feed) ==
    LET m == RStrip(LStrip(Lower(Drop(msg, Len(RSS.command)))))
        found == \E i \in 1..Len(FEEDS) : Contains(FEEDS[i].short_name, m)
    IN  IF Take(m, 4) = <<"l","i","s","t">>
        THEN <<[message |-> PyStr(list_feeds), node |-> node]>>
        ELSE IF found
        THEN (IF feed = "feed_ok"
              THEN <<[message |-> PyStr(build_reply(FeedTitles)), node |-> node]>>
              ELSE <<>>)
        ELSE <<[message |-> PyStr(<<"Feed not found. ">> \o list_feeds),
                node |-> node]>>

\* ChatGPT.chat(input_message, node), run in a thread: the send_dm calls it
\* makes.  api is what client.chat.completions.create does; when it raises
\* nothing in chat catches, so the thread ends without a send_dm call
LlmChat(msg, node, api) ==
    LET input == LStrip(Drop(msg, Len(ChatGPT.command)))
    IN  IF Lower(Take(input, 6)) = <<"!","c","l","e","a","r">>
        THEN <<[message |-> PyStr(<<"LLM conversation cleared.">>), node |-> node]>>
        ELSE IF api = "answer"
        THEN <<[message |-> PyStr(<<"<answer>">>), node |-> node]>>
        ELSE <<>>

\* handler.invoke(msg, node)
Invoke(cmd, msg, node, sess, o) ==
    CASE cmd.cls = "Echo" -> EchoInvoke(msg, node, sess)
      [] cmd.cls = "Msg"  -> MsgInvoke(msg, node, sess, o)
      [] cmd.cls \in {"RSS", "ChatGPT"} -> OffloadInvoke(msg, node, sess)
      [] OTHER -> PluginInvoke(msg, node, sess, o)

-----------------------------------------------------------------------------
(* DoorManager *)

\* the test of get_command_handler's loop body
IsPrefix(word, message) ==
    /\ Len(message) >= Len(word)
    /\ SubSeq(message, 1, Len(word)) = word

\* get_command_handler that keeps looking after a match and returns the
\* last command whose word is a prefix
get_command_handler_Last(message) ==
    LET hits == {i \in 1..Len(commands) : IsPrefix(commands[i].command, message)}
    IN  IF hits = {} THEN 0
        ELSE CHOOSE i \in hits : \A j \in hits : i >= j

\* DoorManager.get_command_handler(message): the position in self.commands
\* of the command returned, 0 for None
get_command_handler(message) ==
    LET hits == {i \in 1..Len(commands) : IsPrefix(commands[i].command, message)}
    IN  IF hits = {} THEN 0
        ELSE CHOOSE i \in hits : \A j \in hits : i <= j

\* help_message that lists the command words last-registered first
help_message_Reversed ==
    <<"Hi, I am a bot.\n\nTry one of these commands: ">>
    \o Join(<<", ">>, [i \in 1..Len(commands) |->
                          commands[Len(commands) + 1 - i].command])
    \o <<" or 'help <command>'.">>

\* DoorManager.help_message()
help_message ==
    <<"Hi, I am a bot.\n\nTry one of these commands: ">>
    \o Join(<<", ">>, [i \in 1..Len(commands) |-> commands[i].command])
    \o <<" or 'help <command>'.">>

\* help_command that joins description and help without the blank line
help_command_NoBlankLine(command) ==
    IF command.description = <<>> /\ command.help = <<>>
    THEN <<"No help for this command">>
    ELSE command.description \o command.help

\* DoorManager.help_command(command)
help_command(command) ==
    LET description == command.description
        help == command.help
    IN  IF description # <<>> /\ help # <<>>
        THEN description \o <<"\n\n">> \o help
        ELSE IF description # <<>> /\ help = <<>> THEN description
        ELSE IF description = <<>> /\ help # <<>> THEN help
        ELSE <<"No help for this command">>

\* PingResponse with the SNR and the RSSI taken from each other's field
PingResponse_Swapped(node, hops, snr, rssi) ==
    <<"Received ping from node ", node, "\nHops: ">> \o Fmt(hops)
    \o <<"\nSNR: ">> \o Fmt(rssi) \o <<"\nRSSI: ">> \o Fmt(snr)

\* the reply on_text builds for a ping
PingResponse(node, hops, snr, rssi) ==
    <<"Received ping from node ", node, "\nHops: ">> \o Fmt(hops)
    \o <<"\nSNR: ">> \o Fmt(snr) \o <<"\nRSSI: ">> \o Fmt(rssi)

\* FailedResponse that names the handler's class, not its command word
FailedResponse_ClassName(handler) ==
    <<"Command to '", handler.cls, "' failed.">>

\* the reply on_text builds when invoke raises CommandRunError
FailedResponse(handler) ==
    <<"Command to '">> \o handler.command \o <<"' failed.">>

\* pub.sendMessage(self.dm_topic, message=.., node=..)
Publish(message, node) == <<[message |-> message, node |-> node]>>

RECURSIVE send_dm_ToSelf(_)
\* send_dm that addresses every text to the door's own node
send_dm_ToSelf(published) ==
    IF published = <<>> THEN <<>>
    ELSE (IF published[1].message.type # "str" THEN <<>>
          ELSE <<[text |-> published[1].message.val, destinationId |-> me]>>)
         \o send_dm_ToSelf(Tail(published))

RECURSIVE send_dm(_)
\* DoorManager.send_dm, the subscriber of dm_topic, run on each published
\* message: interface.sendText(message, node) unless message is no str
send_dm(published) ==
    IF published = <<>> THEN <<>>
    ELSE (IF published[1].message.type # "str" THEN <<>>
          ELSE <<[text |-> published[1].message.val,
                  destinationId |-> published[1].node]>>)
         \o send_dm(Tail(published))

\* the record of one call
Turn(op, packet, lookups, routed, invoked, ret, exc, published) ==
    [op |-> op, packet |-> packet, lookups |-> lookups, routed |-> routed,
     invoked |-> invoked, ret |-> ret, exc |-> exc, published |-> published,
     transmitted |-> send_dm(published), args |-> <<>>, hooks |-> <<>>]

\* the record of a call of add_command, add_commands or shutdown: the
\* classes it was given (the word and what load() does) and the lifecycle
\* hooks it called, in call order
HookTurn(op, args, exc, hooks) ==
    [Turn(op, NoPacket, <<>>, FALSE, <<>>, PyNone, exc, <<>>)
        EXCEPT !.args = args, !.hooks = hooks]

\* the "ping" test of on_text (line 154)
IsPing(msg) == Take(Lower(msg), 4) = <<"p","i","n","g">>

\* the "help " test of on_text (line 160)
IsHelpPrefix(msg) == Take(Lower(msg), 5) = <<"h","e","l","p"," ">>

\* the message on_text hands to handler.invoke (line 172)
HandlerMessage_Lowered(msg) == Lower(msg)

\* the message on_text hands to handler.invoke (line 172): msg, not the
\* lowercased copy the handler was looked up with
HandlerMessage(msg) == msg

\* Route that ends the turn without routing a message for which no handler
\* is found
Route_Dropped(packet, o) ==
    /\ session' = session
    /\ turn' = Turn("on_text", packet, <<>>, FALSE, <<>>, PyNone, "none", <<>>)

\* on_text from line 168 on: regular routing of msg
Route(packet, o) ==
    LET node == packet.fromId
        msg  == packet.payload
        h    == get_command_handler(Lower(msg))
        looked == (IF IsHelpPrefix(msg) THEN <<Lower(Drop(msg, 5))>> ELSE <<>>)
                  \o <<Lower(msg)>>
    IN  IF h # 0
        THEN LET handler == commands[h]
                 r == Invoke(handler, HandlerMessage(msg), node, session, o)
                 call == <<[command |-> handler.command,
                            message |-> HandlerMessage(msg), node |-> node]>>
                 response ==
                     IF r.exc = "CommandRunError"
                     THEN PyStr(FailedResponse(handler)) ELSE r.ret
             IN  /\ session' = r.session
                 /\ turn' = Turn("on_text", packet, looked, TRUE, call, r.ret,
                                 r.exc,
                                 IF r.exc \in {"none", "CommandRunError"}
                                    /\ Truthy(response)
                                 THEN Publish(response, node) ELSE <<>>)
        ELSE /\ session' = session
             /\ turn' = Turn("on_text", packet, looked, TRUE, <<>>, PyNone,
                             "none", Publish(PyStr(help_message), node))

\* on_text that answers a text for another node with the help message
Ignore_Helps(packet) ==
    /\ session' = session
    /\ turn' = Turn("on_text", packet, <<>>, FALSE, <<>>, PyNone, "none",
                    Publish(PyStr(help_message), packet.fromId))

\* on_text, lines 141-142: a text for another node is ignored
Ignore(packet) ==
    /\ session' = session
    /\ turn' = Turn("on_text", packet, <<>>, FALSE, <<>>, PyNone, "none", <<>>)

\* on_text, lines 154-157: the ping built-in
PingTurn(packet) ==
    /\ session' = session
    /\ turn' = Turn("on_text", packet, <<>>, FALSE, <<>>, PyNone, "none",
                    Publish(PyStr(PingResponse(packet.fromId,
                                               packet.hopStart - packet.hopLimit,
                                               packet.rxSnr, packet.rxRssi)),
                            packet.fromId))

\* HelpTurn without the return of line 166: the turn goes on to line 168
HelpTurn_NoReturn(packet) ==
    /\ session' = session
    /\ turn' = Turn("on_text", packet,
                    <<Lower(Drop(packet.payload, 5)), Lower(packet.payload)>>,
                    TRUE, <<>>, PyNone, "none",
                    Publish(PyStr(help_command(commands[get_command_handler(
                                Lower(Drop(packet.payload, 5)))])), packet.fromId)
                    \o Publish(PyStr(help_message), packet.fromId))

\* on_text, lines 162-166: "help <word>" whose word names a loaded command
HelpTurn(packet) ==
    /\ session' = session
    /\ turn' = Turn("on_text", packet, <<Lower(Drop(packet.payload, 5))>>,
                    FALSE, <<>>, PyNone, "none",
                    Publish(PyStr(help_command(commands[get_command_handler(
                                Lower(Drop(packet.payload, 5)))])), packet.fromId))

\* DoorManager.on_text(packet, interface)
OnText(packet, o) ==
    LET msg == packet.payload
    IN  /\ commands' = commands
        /\ IF packet.toId # me THEN Ignore(packet)
           ELSE IF IsPing(msg) THEN PingTurn(packet)
           ELSE IF IsHelpPrefix(msg)
                   /\ get_command_handler(Lower(Drop(msg, 5))) # 0
           THEN HelpTurn(packet)
           ELSE Route(packet, o)

\* the duplicate test of add_command with a loop that passes over the
\* first loaded command
AlreadyLoaded_SkipsFirst(cmds, command) ==
    \E i \in 2..Len(cmds) : cmds[i].command = command.command

\* lines 57-59 of add_command: a loaded command has the word of command
AlreadyLoaded(cmds, command) ==
    \E i \in 1..Len(cmds) : cmds[i].command = command.command

\* Loads that takes a missing load hook for a failure
Loads_Strict(lo) == lo = "ok"

\* lines 70-81 of add_command: the command is kept when load() returns or
\* raises CommandActionNotImplemented, dropped when it raises anything else
Loads(lo) == lo \in {"ok", "not_implemented"}

\* what add_command is given and what its load() does
Arg(command, lo) == [command |-> command.command, load |-> lo]

\* the call of a lifecycle hook
Hook(hook, command, outcome) ==
    [hook |-> hook, command |-> command.command, outcome |-> outcome]

\* add_command that runs load() before it looks for a duplicate
add_command_LoadsFirst(cmds, command, lo) ==
    [commands |-> IF ~AlreadyLoaded(cmds, command) /\ Loads(lo)
                  THEN Append(cmds, command) ELSE cmds,
     exc |-> IF AlreadyLoaded(cmds, command) THEN "CommandLoadError" ELSE "none",
     hooks |-> <<Hook("load", command, lo)>>]

\* DoorManager.add_command(command) on the registry cmds, the class's load()
\* ending as lo: the registry it leaves, the exception it raises and the
\* hooks it called
add_command(cmds, command, lo) ==
    IF AlreadyLoaded(cmds, command)
    THEN [commands |-> cmds, exc |-> "CommandLoadError", hooks |-> <<>>]
    ELSE [commands |-> IF Loads(lo) THEN Append(cmds, command) ELSE cmds,
          exc |-> "none",
          hooks |-> <<Hook("load", command, lo)>>]

RECURSIVE add_commands(_, _)
\* DoorManager.add_commands(commands) on the registry cmds; batch is the
\* list of <<class, what its load() does>>.  An exception of add_command
\* leaves the for loop
add_commands(cmds, batch) ==
    IF batch = <<>>
    THEN [commands |-> cmds, exc |-> "none", hooks |-> <<>>]
    ELSE LET r == add_command(cmds, batch[1][1], batch[1][2])
         IN  IF r.exc # "none" THEN r
             ELSE LET rest == add_commands(r.commands, Tail(batch))
                  IN  [commands |-> rest.commands, exc |-> rest.exc,
                       hooks |-> r.hooks \o rest.hooks]

RECURSIVE shutdown_StopsAtMissing(_, _)
\* shutdown whose try encloses the for loop: the first command without a
\* shutdown hook ends it
shutdown_StopsAtMissing(cmds, outs) ==
    IF cmds = <<>> THEN [exc |-> "none", hooks |-> <<>>]
    ELSE LET call == <<Hook("shutdown", cmds[1], outs[1])>>
         IN  IF outs[1] = "error" THEN [exc |-> "Exception", hooks |-> call]
             ELSE IF outs[1] = "not_implemented"
             THEN [exc |-> "none", hooks |-> call]
             ELSE LET rest == shutdown_StopsAtMissing(Tail(cmds), Tail(outs))
                  IN  [exc |-> rest.exc, hooks |-> call \o rest.hooks]

RECURSIVE shutdown(_, _)
\* DoorManager.shutdown() on the registry cmds, outs[i] being what the
\* shutdown hook of the i-th command does: CommandActionNotImplemented is
\* passed over, any other exception leaves the for loop
shutdown(cmds, outs) ==
    IF cmds = <<>> THEN [exc |-> "none", hooks |-> <<>>]
    ELSE LET call == <<Hook("shutdown", cmds[1], outs[1])>>
         IN  IF outs[1] = "error" THEN [exc |-> "Exception", hooks |-> call]
             ELSE LET rest == shutdown(Tail(cmds), Tail(outs))
                  IN  [exc |-> rest.exc, hooks |-> call \o rest.hooks]

\* DoorManager.add_command(command), the class's load() ending as lo
AddCommand(command, lo) ==
    LET r == add_command(commands, command, lo)
    IN  /\ session' = session
        /\ AlreadyLoaded(commands, command) \/ Len(commands) < MaxCommands
        /\ commands' = r.commands
        /\ turn' = HookTurn("add_command", <<Arg(command, lo)>>, r.exc, r.hooks)

\* DoorManager.add_commands(commands)
AddCommands(batch) ==
    LET r == add_commands(commands, batch)
    IN  /\ session' = session
        /\ Len(r.commands) <= MaxCommands
        /\ commands' = r.commands
        /\ turn' = HookTurn("add_commands",
                            [i \in 1..Len(batch) |-> Arg(batch[i][1], batch[i][2])],
                            r.exc, r.hooks)

\* DoorManager.shutdown()
Shutdown(outs) ==
    LET r == shutdown(commands, outs)
    IN  /\ session' = session
        /\ commands' = commands
        /\ turn' = HookTurn("shutdown", <<>>, r.exc, r.hooks)

\* the thread that runs on_text, and the threads run_in_thread starts
Dispatcher == 0

Workers == 1..MaxWorkers

Producers == {Dispatcher} \cup Workers

\* the send_dm calls of a thread target started by run_in_thread(method,
\* message, node): method answers node once or twice, with a str or, by
\* mistake, None
Works(node) ==
    LET first  == [message |-> PyStr(<<"worker reply">>), node |-> node]
        second == [message |-> PyStr(<<"more">>), node |-> node]
        none   == [message |-> PyNone, node |-> node]
    IN  { <<first, second>>, <<none, first>> }

\* the thread that invoke() may have started: only a plugin whose invoke
\* returns None answers out of band (llm.py line 66, rss.py line 53)
WorksOf(t, o) ==
    IF t.invoked = <<>> THEN {<<>>}
    ELSE IF t.invoked[1].command = RSS.command
    THEN {RssFetch(t.invoked[1].message, t.invoked[1].node, o)}
    ELSE IF t.invoked[1].command = ChatGPT.command
    THEN {LlmChat(t.invoked[1].message, t.invoked[1].node, o)}
    ELSE IF o = "none" /\ t.invoked[1].command \notin {Echo.command, Msg.command}
    THEN {<<>>} \cup Works(t.invoked[1].node)
    ELSE {<<>>}

\* publications pubs made by thread p
Stamp(p, pubs) ==
    [i \in 1..Len(pubs) |->
        [by |-> p, message |-> pubs[i].message, node |-> pubs[i].node]]

\* a pub.sendMessage that returns before its listeners have run
Returned_Async(p) == TRUE

\* pub.sendMessage calls its listeners in the calling thread: the thread
\* goes on to its next statement when every call it made has returned
Returned(p) == threads[p].calls = <<>>

\* the index of a free worker thread, 0 when MaxWorkers threads are alive
FreeWorker ==
    IF \E w \in Workers : threads[w].todo = <<>> /\ threads[w].calls = <<>>
    THEN CHOOSE w \in Workers :
            /\ threads[w].todo = <<>> /\ threads[w].calls = <<>>
            /\ \A v \in Workers :
                  threads[v].todo = <<>> /\ threads[v].calls = <<>> => w <= v
    ELSE 0

\* s without its k-th element
Without(s, k) == SubSeq(s, 1, k - 1) \o SubSeq(s, k + 1, Len(s))

\* the thread that delivers text packets is free to call on_text again when
\* the on_text call before has returned
CanReceive == Returned(Dispatcher)

\* the mesh interface receives a text packet and calls on_text, which runs
\* up to its pub.sendMessage (lines 156, 163, 182); a handler it invoked may
\* have started a thread that is to make the send_dm calls of work
Receive(packet, o, work) ==
    /\ CanReceive
    /\ OnText(packet, o)
    /\ work \in WorksOf(turn', o)
    /\ work # <<>> => FreeWorker # 0
    /\ Len(topic) + Len(turn'.published) <= MaxPublished
    /\ topic' = topic \o Stamp(Dispatcher, turn'.published)
    /\ threads' =
          [p \in Producers |->
              IF p = Dispatcher
              THEN [todo |-> <<>>,
                    calls |-> [i \in 1..Len(turn'.published) |-> Len(topic) + i]]
              ELSE IF work # <<>> /\ p = FreeWorker
              THEN [todo |-> work, calls |-> <<>>]
              ELSE threads[p]]
    /\ mesh' = mesh
    /\ UNCHANGED heat

\* BaseCommand.send_dm(message, node) called in a worker thread: up to its
\* pub.sendMessage (base_command.py line 80)
WorkerPublish(w) ==
    /\ threads[w].todo # <<>>
    /\ Returned(w)
    /\ Len(topic) < MaxPublished
    /\ topic' = topic \o Stamp(w, <<Head(threads[w].todo)>>)
    /\ threads' = [threads EXCEPT ![w] =
                      [todo |-> Tail(threads[w].todo),
                       calls |-> Append(threads[w].calls, Len(topic) + 1)]]
    /\ UNCHANGED <<commands, session, turn, mesh, heat>>

\* a subscriber that keeps the call open to send again after a failed
\* sendText
Close_Retry(calls, k, sent) == IF sent THEN Without(calls, k) ELSE calls

\* the open pub.sendMessage calls of a thread after send_dm has run for the
\* k-th: the call is over whether sendText returned or raised (send_dm has
\* no try and no loop)
Close(calls, k, sent) == Without(calls, k)

\* the subscriber DoorManager.send_dm runs, in thread p, on the message of
\* p's k-th open pub.sendMessage call; interface.sendText returns (sent) or
\* raises, and then the exception leaves pub.sendMessage: it ends on_text,
\* or the worker thread with the send_dm calls it had yet to make
Deliver(p, k, sent) ==
    /\ k \in 1..Len(threads[p].calls)
    /\ LET j == threads[p].calls[k]
           tx == send_dm(<<[message |-> topic[j].message, node |-> topic[j].node]>>)
       IN  /\ mesh' = mesh \o [i \in 1..Len(tx) |->
                                 [text |-> tx[i].text,
                                  destinationId |-> tx[i].destinationId,
                                  of |-> j, sent |-> sent]]
           /\ tx = <<>> => sent
    /\ threads' = [threads EXCEPT ![p] =
                      [todo |-> IF sent THEN threads[p].todo ELSE <<>>,
                       calls |-> Close(threads[p].calls, k, sent)]]
    /\ UNCHANGED <<commands, session, turn, topic, heat>>

-----------------------------------------------------------------------------
(* haversine.  A Python float is a fixed-point number: an integer count of
   units of 1/Scale, every operation rounding to the nearest unit, ties away
   from zero, as IEEE arithmetic rounds symmetrically in the sign.
   Coordinates are in 1/10000 degree and miles in 1/100 mile.  The 32-bit
   integers of the model checker hold all intermediate products for
   latitudes up to 41 degrees and points up to 700 miles apart. *)

PyInt(n) == [type |-> "int", num |-> n]

\* the units of one
Scale == 30000

\* a / b rounded to the nearest integer
Quot(a, b) ==
    IF a >= 0 THEN (a + b \div 2) \div b ELSE 0 - ((0 - a + b \div 2) \div b)

\* the product of two fixed-point numbers
Mul(a, b) == Quot(a * b, Scale)

\* math.radians(deg), deg in 1/10000 degree: deg * pi / 180
radians(deg) == Quot(deg * 5236, 100000)

\* math.sin(x), by its Taylor series to x^7
sin(x) ==
    LET x2 == Mul(x, x)
        x3 == Mul(x2, x)
        x5 == Mul(x3, x2)
        x7 == Mul(x5, x2)
    IN  x - Quot(x3, 6) + Quot(x5, 120) - Quot(x7, 5040)

\* math.cos(x), by its Taylor series to x^6
cos(x) ==
    LET x2 == Mul(x, x)
        x4 == Mul(x2, x2)
        x6 == Mul(x4, x2)
    IN  Scale - Quot(x2, 2) + Quot(x4, 24) - Quot(x6, 720)

RECURSIVE isqrt(_, _, _)
\* the largest r in lo..hi with r * r <= n
isqrt(n, lo, hi) ==
    IF lo >= hi THEN lo
    ELSE LET mid == (lo + hi + 1) \div 2
         IN  IF mid * mid <= n THEN isqrt(n, mid, hi) ELSE isqrt(n, lo, mid - 1)

\* math.sqrt(n), n in units of 1/Scale^2
sqrt(n) == isqrt(n, 0, Scale)

\* math.atan2(y, x) for 0 <= y < x, by the Taylor series of atan to t^7
atan2(y, x) ==
    LET t  == Quot(y * Scale, x)
        t2 == Mul(t, t)
        t3 == Mul(t2, t)
        t5 == Mul(t3, t2)
        t7 == Mul(t5, t2)
    IN  t - Quot(t3, 3) + Quot(t5, 5) - Quot(t7, 7)

\* R of haversine (line 19), in 1/100 mile
EarthRadius == 395880

\* haversine that takes the second point's latitude for both cosines
HaversineA_OneCosine(lat1, lon1, lat2, lon2) ==
    LET phi2 == radians(lat2)
        dphi == radians(lat2 - lat1)
        dlambda == radians(lon2 - lon1)
        s1 == sin(Quot(dphi, 2))
        s2 == sin(Quot(dlambda, 2))
    IN  s1 * s1 + Mul(Mul(cos(phi2), cos(phi2)), s2) * s2

\* the a of haversine (line 24), in units of 1/Scale^2
HaversineA(lat1, lon1, lat2, lon2) ==
    LET phi1 == radians(lat1)
        phi2 == radians(lat2)
        dphi == radians(lat2 - lat1)
        dlambda == radians(lon2 - lon1)
        s1 == sin(Quot(dphi, 2))
        s2 == sin(Quot(dlambda, 2))
    IN  s1 * s1 + Mul(Mul(cos(phi1), cos(phi2)), s2) * s2

\* haversine(lat1, lon1, lat2, lon2), in 1/100 mile
haversine(lat1, lon1, lat2, lon2) ==
    LET a == HaversineA(lat1, lon1, lat2, lon2)
        c == 2 * atan2(sqrt(a), sqrt(Scale * Scale - a))
    IN  Quot(EarthRadius * c, Scale)

\* points of the map: Austin and Dallas, 182 miles apart, and points about
\* 2, 5 and 50 miles north and 50 miles east of Austin
Austin == [latitude |-> 302672, longitude |-> -977431]

Dallas == [latitude |-> 327767, longitude |-> -967970]

Points ==
    { Austin, Dallas,
      [latitude |-> 302962, longitude |-> -977431],
      [latitude |-> 303396, longitude |-> -977431],
      [latitude |-> 309908, longitude |-> -977431],
      [latitude |-> 302672, longitude |-> -969031],
      [latitude |-> 295000, longitude |-> -984936],
      [latitude |-> 327767, longitude |-> -977431] }

\* no call of haversine yet
NoHaversine ==
    [lat1 |-> 0, lon1 |-> 0, lat2 |-> 0, lon2 |-> 0, miles |-> PyNone]

\* haversine is called on the arguments drawn
Haversine ==
    /\ geo.miles = PyNone
    /\ geo' = [geo EXCEPT !.miles = PyInt(haversine(geo.lat1, geo.lon1,
                                                    geo.lat2, geo.lon2))]
    /\ UNCHANGED <<commands, session, turn, chan, telemetry, served>>

\* what the handler that on_text would invoke for packet may do ("none" when
\* on_text invokes no handler)
Outcomes(packet) ==
    LET msg == packet.payload
        h   == get_command_handler(Lower(msg))
    IN  IF \/ packet.toId # me
           \/ IsPing(msg)
           \/ IsHelpPrefix(msg) /\ get_command_handler(Lower(Drop(msg, 5))) # 0
           \/ h = 0
        THEN {"none"}
        ELSE InvokeOutcomes(commands[h].cls)

-----------------------------------------------------------------------------
(* DoorManager.on_packet *)

\* self.distance_filter (line 36, the fallback 5.0 miles), in 1/100 mile
distance_filter == 500

\* self.snr_filter (line 37, the fallback 6)
snr_filter == 6

\* self.ignore_nodes (line 41)
ignore_nodes == {"!ig"}

\* the [global] settings the manager was constructed with: the fallbacks,
\* and a heatmap_filter_distance of 5.01 miles
Settings ==
    { [distance_filter |-> distance_filter, snr_filter |-> snr_filter],
      [distance_filter |-> 501, snr_filter |-> snr_filter] }

\* a position dict: packet["decoded"]["position"] or node_info["position"]
Position(latitude, longitude) ==
    [type |-> "dict", empty |-> FALSE,
     latitude |-> latitude, longitude |-> longitude]

\* the dict {}
EmptyPosition ==
    [type |-> "dict", empty |-> TRUE, latitude |-> PyNone, longitude |-> PyNone]

\* no "position" key: .get("position") is None
NoPosition ==
    [type |-> "NoneType", empty |-> TRUE,
     latitude |-> PyNone, longitude |-> PyNone]

\* interface.nodes.get(node_id): None, or the cached dict with its
\* optional keys "position", "deviceMetrics"/"hopsAway" and "user"
NoNodeInfo ==
    [present |-> FALSE, position |-> NoPosition, hopsAway |-> PyNone,
     user |-> "absent"]

NodeInfo(position, hopsAway, user) ==
    [present |-> TRUE, position |-> position, hopsAway |-> hopsAway,
     user |-> user]

\* a packet of the "meshtastic.receive" topic
MeshPacket(from, decoded, position, hopStart, hopLimit, snr, rssi) ==
    [fromId |-> from, decoded |-> decoded, position |-> position,
     hopStart |-> hopStart, hopLimit |-> hopLimit,
     rxSnr |-> snr, rxRssi |-> rssi, rxTime |-> PyInt(1700000000)]

\* how a call of on_packet ends: the exception it raises ("none" when it
\* returns), the gate it returned at, the hop count and position it
\* derived, the distance, the data dict it built and the dicts it posted
Outcome(exc, gate, hop_count, position, distance, record, posts) ==
    [exc |-> exc, gate |-> gate, hop_count |-> hop_count,
     position |-> position, distance |-> distance,
     record |-> record, posts |-> posts]

\* a call that returns or raises before it has built the data dict
Discard(exc, gate, hop_count, position, distance) ==
    Outcome(exc, gate, hop_count, position, distance, <<>>, <<>>)

\* the sender check that knows no ignore list
Ignored_LocalOnly(node_id) == node_id = me

\* line 198: the packet is from the local node or from an ignored node
Ignored(node_id) == node_id = me \/ node_id \in ignore_nodes

\* the position that prefers the sender's cached position to the packet's
position_of_CacheFirst(packet, node_info) ==
    IF node_info.present /\ node_info.position.type = "dict"
    THEN node_info.position
    ELSE IF packet.position.type = "dict" /\ ~packet.position.empty
    THEN packet.position
    ELSE NoPosition

\* lines 203-218: the position dict that latitude and longitude are read
\* from; NoPosition when on_packet returns for want of one
position_of(packet, node_info) ==
    IF packet.position.type = "dict" /\ ~packet.position.empty
    THEN packet.position
    ELSE IF node_info.present /\ node_info.position.type = "dict"
    THEN node_info.position
    ELSE NoPosition

\* hop count that prefers the packet's own hop fields to the cached field
hop_count_of_PacketFirst(packet, node_info) ==
    IF packet.hopStart # PyNone /\ packet.hopLimit # PyNone
    THEN PyInt(packet.hopStart.num - packet.hopLimit.num)
    ELSE IF packet.hopLimit # PyNone THEN packet.hopLimit
    ELSE IF node_info.present /\ node_info.hopsAway # PyNone
    THEN node_info.hopsAway
    ELSE PyInt(0)

\* lines 220-233: hop_count
hop_count_of(packet, node_info) ==
    LET cached == IF node_info.present THEN node_info.hopsAway ELSE PyNone
    IN  IF cached # PyNone THEN cached
        ELSE IF packet.hopStart # PyNone /\ packet.hopLimit # PyNone
        THEN PyInt(packet.hopStart.num - packet.hopLimit.num)
        ELSE IF packet.hopLimit # PyNone THEN packet.hopLimit
        ELSE PyInt(0)

\* the hop gate that lets every packet through
HopGate_Open(hop_count) == FALSE

\* line 236: the packet is ignored for its hop count
HopGate(hop_count) == hop_count.num # 0

\* line 243: the packet is ignored for want of SNR or RSSI
SignalGate(packet) == packet.rxSnr = PyNone \/ packet.rxRssi = PyNone

\* the far/strong test that discards every far packet
FarStrong_FarOnly(distance, snr, settings) ==
    distance > settings.distance_filter

\* line 260: the packet is impossibly far for its strength
FarStrong(distance, snr, settings) ==
    distance > settings.distance_filter /\ snr > settings.snr_filter

\* lines 288-300 with an except clause that raises again
Forward_Raises(data, post) ==
    [exc |-> IF post = "failed" THEN "RequestException" ELSE "none",
     posts |-> IF post = "no_url" THEN <<>> ELSE <<data>>]

\* lines 288-300: data is posted when server_url is set; post is what
\* requests.post and raise_for_status do, a RequestException being logged
Forward(data, post) ==
    [exc |-> "none", posts |-> IF post = "no_url" THEN <<>> ELSE <<data>>]

\* DoorManager.on_packet(packet, interface): node_info and my_node are
\* interface.nodes.get(node_id) and interface.nodes.get(self.me), post what
\* the server does ("no_url" when server_url is not set)
on_packet(packet, node_info, my_node, post, settings) ==
    LET node_id == packet.fromId
        pos  == position_of(packet, node_info)
        hops == hop_count_of(packet, node_info)
    IN  IF Ignored(node_id)
        THEN Discard("none", "ignored", PyNone, NoPosition, PyNone)
        ELSE IF ~packet.decoded
        THEN Discard("KeyError", "decoded", PyNone, NoPosition, PyNone)
        ELSE IF pos.type # "dict"
        THEN Discard("none", "no_position", PyNone, NoPosition, PyNone)
        ELSE IF HopGate(hops)
        THEN Discard("none", "hops", hops, pos, PyNone)
        ELSE IF SignalGate(packet)
        THEN Discard("none", "no_signal", hops, pos, PyNone)
        ELSE IF ~my_node.present \/ my_node.position.type # "dict"
        THEN Discard("none", "no_local_position", hops, pos, PyNone)
        ELSE IF \/ pos.latitude = PyNone \/ pos.longitude = PyNone
                \/ my_node.position.latitude = PyNone
                \/ my_node.position.longitude = PyNone
        THEN Discard("TypeError", "haversine", hops, pos, PyNone)
        ELSE LET distance == haversine(my_node.position.latitude.num,
                                       my_node.position.longitude.num,
                                       pos.latitude.num, pos.longitude.num)
             IN  IF node_info.present /\ node_info.user = "absent"
                 THEN Discard("KeyError", "user", hops, pos, PyInt(distance))
                 ELSE IF FarStrong(distance, packet.rxSnr.num, settings)
                 THEN Discard("none", "far_strong", hops, pos, PyInt(distance))
                 ELSE LET data ==
                            [node_id |-> node_id,
                             long_name |-> IF node_info.present
                                              /\ node_info.user = "named"
                                           THEN "<longName>" ELSE "Unknown",
                             latitude |-> pos.latitude.num,
                             longitude |-> pos.longitude.num,
                             distance |-> distance,
                             snr |-> packet.rxSnr.num,
                             rssi |-> packet.rxRssi.num,
                             timestamp |-> packet.rxTime.num]
                          f == Forward(data, post)
                      IN  Outcome(f.exc, "passed", hops, pos, PyInt(distance),
                                  <<data>>, f.posts)

\* the local node's cached entry, its position Austin
MyNode ==
    NodeInfo(Position(PyInt(Austin.latitude), PyInt(Austin.longitude)),
             PyNone, "named")

\* positions about 2, 1, 5 and 50 miles north of Austin
Near == Position(PyInt(302962), PyInt(Austin.longitude))

Nearer == Position(PyInt(302817), PyInt(Austin.longitude))

Edge == Position(PyInt(303396), PyInt(Austin.longitude))

Far == Position(PyInt(309908), PyInt(Austin.longitude))

\* a call of on_packet: a sender 2 miles away heard directly at 8 dB, not
\* yet in the node cache, the server taking the post
BaseCase ==
    [from |-> "!a", decoded |-> TRUE, position |-> Near,
     hops |-> <<PyInt(3), PyInt(3)>>, signal |-> <<PyInt(8), PyInt(-70)>>,
     node_info |-> NoNodeInfo, my_node |-> MyNode, post |-> "ok",
     settings |-> [distance_filter |-> distance_filter,
                   snr_filter |-> snr_filter]]

\* what a call may differ in
Alternatives ==
    { <<"from", n>> : n \in {me, "!ig"} }
    \cup { <<"decoded", FALSE>> }
    \cup { <<"position", q>> :
             q \in {NoPosition, EmptyPosition, Edge, Far,
                    Position(PyNone, PyInt(Austin.longitude))} }
    \cup { <<"hops", h>> :
             h \in { <<PyNone, PyNone>>, <<PyInt(3), PyInt(1)>>,
                     <<PyNone, PyInt(0)>>, <<PyNone, PyInt(2)>> } }
    \cup { <<"signal", g>> :
             g \in { <<PyInt(6), PyInt(-70)>>, <<PyInt(-3), PyInt(-70)>>,
                     <<PyNone, PyInt(-70)>>, <<PyInt(8), PyNone>> } }
    \cup { <<"node_info", c>> :
             c \in { NodeInfo(NoPosition, PyNone, "named"),
                     NodeInfo(Nearer, PyNone, "unnamed"),
                     NodeInfo(Far, PyNone, "named"),
                     NodeInfo(NoPosition, PyInt(0), "named"),
                     NodeInfo(NoPosition, PyInt(2), "named"),
                     NodeInfo(NoPosition, PyNone, "absent") } }
    \cup { <<"my_node", NoNodeInfo>> }
    \cup { <<"post", o>> : o \in {"failed", "no_url"} }
    \cup { <<"settings", c>> : c \in Settings }

\* the calls that differ from one of cases in at most one way
Vary(cases) ==
    cases \cup { [c EXCEPT ![a[1]] = a[2]] : c \in cases, a \in Alternatives }

\* the calls of on_packet: BaseCase changed in at most two ways
PacketCases == Vary(Vary({BaseCase}))

\* no call of on_packet yet
NoTelemetry ==
    [packet |-> MeshPacket("", TRUE, NoPosition, PyNone, PyNone, PyNone, PyNone),
     node_info |-> NoNodeInfo, my_node |-> NoNodeInfo, post |-> "no_url",
     settings |-> [distance_filter |-> distance_filter,
                   snr_filter |-> snr_filter],
     result |-> Discard("none", "init", PyNone, NoPosition, PyNone)]

\* the mesh interface publishes a packet on "meshtastic.receive" and
\* on_packet runs on it
OnPacket(c) ==
    LET packet == MeshPacket(c.from, c.decoded, c.position, c.hops[1],
                             c.hops[2], c.signal[1], c.signal[2])
    IN  /\ telemetry' =
              [packet |-> packet, node_info |-> c.node_info,
               my_node |-> c.my_node, post |-> c.post,
               settings |-> c.settings,
               result |-> on_packet(packet, c.node_info, c.my_node, c.post,
                                    c.settings)]
        /\ UNCHANGED <<commands, session, turn, chan, geo, served>>

-----------------------------------------------------------------------------

-----------------------------------------------------------------------------
(* BaseCommand.get_setting *)

\* the value of a decimal digit
DigitValue(c) == CHOOSE d \in 0..9 : DigitCh[d + 1] = c

\* s is a decimal literal
IsDecimal(s) ==
    /\ s # <<>>
    /\ \A i \in 1..Len(s) : \E d \in 0..9 : DigitCh[d + 1] = s[i]

\* int(s) for a decimal literal s
RECURSIVE DecimalValue(_)
DecimalValue(s) ==
    IF s = <<>> THEN 0
    ELSE 10 * DecimalValue(SubSeq(s, 1, Len(s) - 1)) + DigitValue(s[Len(s)])

\* ConfigParser.getint(section, option) on the text of the option: int(text),
\* which raises ValueError for a text that is no number
getint(text) ==
    IF IsDecimal(text)
    THEN [exc |-> "none", ret |-> PyInt(DecimalValue(text))]
    ELSE [exc |-> "ValueError", ret |-> PyNone]

\* the settings as far as one option goes: its text in the section of the
\* plugin's module and in the section "global", PyNone where has_option is
\* false
Config(module, global) == [module |-> module, global |-> global]

\* the texts an option is set to
OptionTexts ==
    { PyNone, PyStr(<<"8","0","8","0">>), PyStr(<<"9","0">>),
      PyStr(<<"h","t","t","p",":","/","/","m","a","p">>) }

Configs == { Config(m, g) : m \in OptionTexts, g \in OptionTexts }

\* the calls of Heatmap.load (heatmap.py lines 156-157), and the same
\* calls without a default
SettingCalls ==
    { [type |-> "str", name |-> "heatmap_url",
       default |-> PyStr(<<"http://localhost:5000">>)],
      [type |-> "int", name |-> "heatmap_port", default |-> PyInt(5000)],
      [type |-> "str", name |-> "heatmap_url", default |-> PyNone],
      [type |-> "int", name |-> "heatmap_port", default |-> PyNone] }

\* get_setting that looks in "global" before the plugin's section
get_setting_GlobalFirst(type, name, default, config) ==
    IF config.global = PyNone /\ config.module = PyNone
    THEN [exc |-> "none", ret |-> PyNone]
    ELSE LET text == IF config.global # PyNone THEN config.global
                     ELSE config.module
         IN  IF type = "int" THEN getint(text.val)
             ELSE [exc |-> "none", ret |-> text]

\* BaseCommand.get_setting(type, name, default): config is what
\* self.settings holds for the option name
get_setting(type, name, default, config) ==
    IF config.module = PyNone /\ config.global = PyNone
    THEN [exc |-> "none", ret |-> PyNone]
    ELSE LET text == IF config.module # PyNone THEN config.module
                     ELSE config.global
         IN  IF type = "int" THEN getint(text.val)
             ELSE [exc |-> "none", ret |-> text]

\* a call of get_setting that has not returned
Calling(call, config) ==
    [type |-> call.type, name |-> call.name, default |-> call.default,
     config |-> config, done |-> FALSE, exc |-> "none", ret |-> PyNone]

\* no call of get_setting
NoSetting ==
    Calling([type |-> "str", name |-> "", default |-> PyNone],
            Config(PyNone, PyNone))

\* the call returns or raises
GetSetting ==
    /\ ~setting.done
    /\ setting.name # ""
    /\ LET r == get_setting(setting.type, setting.name, setting.default,
                            setting.config)
       IN  setting' = [setting EXCEPT !.done = TRUE, !.exc = r.exc,
                                      !.ret = r.ret]
    /\ UNCHANGED <<commands, session, turn, chan, geo, telemetry, table, http>>

-----------------------------------------------------------------------------
(* server.py: the telemetry sink *)

\* AUTH_TOKEN (line 17), as server.ini sets it
AUTH_TOKEN == <<"t","o","k">>

\* str.split(): the words of s between runs of whitespace
RECURSIVE Split(_)
Split(s) ==
    LET t == LStrip(s)
    IN  IF t = <<>> THEN <<>>
        ELSE <<UntilSpace(t)>> \o Split(Drop(t, Len(UntilSpace(t))))

\* the keys of the data dict that on_packet posts (manager.py lines 276-286)
DataKeys ==
    {"node_id", "long_name", "latitude", "longitude", "distance", "snr",
     "rssi", "timestamp"}

\* a JSON object: the keys it has and their values (0 and "" for a key it
\* lacks)
Dict(keys, node_id, long_name, latitude, longitude, distance, snr, rssi, timestamp) ==
    [type |-> "dict", keys |-> keys, node_id |-> node_id,
     long_name |-> long_name, latitude |-> latitude, longitude |-> longitude,
     distance |-> distance, snr |-> snr, rssi |-> rssi,
     timestamp |-> timestamp]

\* the JSON object {}
EmptyDict == Dict({}, "", "", 0, 0, 0, 0, 0, 0)

\* the data dict of on_packet for a packet of node_id: heard from about 2
\* miles, or later from about 1 mile
Observation(node_id, later) ==
    IF later
    THEN Dict(DataKeys, node_id, "<longName>", Nearer.latitude.num,
              Nearer.longitude.num, 105, -3, -90, 1700000060)
    ELSE Dict(DataKeys, node_id, "Unknown", Near.latitude.num,
              Near.longitude.num, 211, 8, -70, 1700000000)

\* d without its key k
Lacking(d, k) == [d EXCEPT !.keys = d.keys \ {k}, ![k] = 0]

\* request.json: null, {}, a data dict of on_packet, or one without "snr"
Bodies ==
    {PyNone, EmptyDict}
    \cup { Observation(n, later) : n \in Nodes, later \in BOOLEAN }
    \cup { Lacking(Observation("!a", FALSE), "snr") }

\* request.headers.get("Authorization"): None when the header is missing
AuthHeaders ==
    { PyNone,
      PyStr(<<>>),
      PyStr(<<"B","e","a","r","e","r">>),
      PyStr(<<"B","e","a","r","e","r"," ">>),
      PyStr(<<"B","e","a","r","e","r"," ","t","o","k">>),
      PyStr(<<"B","e","a","r","e","r"," ","b","a","d">>),
      PyStr(<<"t","o","k">>),
      PyStr(<<"B","a","s","i","c"," ","t","o","k">>) }

\* CURRENT_TIMESTAMP at the server
Datetime(text) == [type |-> "datetime", text |-> text]

ServerTimes ==
    { Datetime("2024-11-05 10:00:00"), Datetime("2024-11-05 10:05:00") }

\* a row of the table packets (lines 26-36)
Row(node_id, long_name, latitude, longitude, snr, rssi, timestamp) ==
    [node_id |-> node_id, long_name |-> long_name, latitude |-> latitude,
     longitude |-> longitude, snr |-> snr, rssi |-> rssi,
     timestamp |-> timestamp]

\* the row that the INSERT of lines 39-41 makes of packet_data
RowOf(packet_data, now) ==
    Row(packet_data.node_id, packet_data.long_name, packet_data.latitude,
        packet_data.longitude, packet_data.snr, packet_data.rssi, now)

\* the statement of lines 39-49 without its ON CONFLICT clause, on a table
\* without the primary key
Upsert_InsertOnly(rows, packet_data, now) ==
    rows \o <<RowOf(packet_data, now)>>

\* lines 39-49: INSERT ... ON CONFLICT(node_id) DO UPDATE
Upsert(rows, packet_data, now) ==
    IF \E i \in 1..Len(rows) : rows[i].node_id = packet_data.node_id
    THEN [i \in 1..Len(rows) |->
            IF rows[i].node_id = packet_data.node_id
            THEN RowOf(packet_data, now) ELSE rows[i]]
    ELSE rows \o <<RowOf(packet_data, now)>>

\* store_packet(packet_data): the exception it raises and the table it
\* leaves; sqlite3 raises ProgrammingError for a named parameter that
\* packet_data does not supply
store_packet(rows, packet_data, now) ==
    IF {"node_id", "long_name", "latitude", "longitude", "snr", "rssi"}
          \subseteq packet_data.keys
    THEN [exc |-> "none", rows |-> Upsert(rows, packet_data, now)]
    ELSE [exc |-> "ProgrammingError", rows |-> rows]

\* what a POST comes to: the exception the view raised ("none" when it
\* returned), the status, the JSON of the answer and the table
Answer(exc, status, error, received, rows) ==
    [exc |-> exc, status |-> status, error |-> error, received |-> received,
     rows |-> rows]

\* line 58: not auth_header or auth_header.split()[1] != AUTH_TOKEN, which
\* raises IndexError when the header has fewer than two words
Unauthorized(auth_header) ==
    IF auth_header = PyNone \/ auth_header.val = <<>> THEN "yes"
    ELSE IF Len(Split(auth_header.val)) < 2 THEN "IndexError"
    ELSE IF Split(auth_header.val)[2] # AUTH_TOKEN THEN "yes" ELSE "no"

\* receive_packet_data(): an exception that leaves the view is answered by
\* Flask with status 500
receive_packet_data(auth_header, data, rows, now) ==
    IF Unauthorized(auth_header) = "IndexError"
    THEN Answer("IndexError", 500, "Internal Server Error", PyNone, rows)
    ELSE IF Unauthorized(auth_header) = "yes"
    THEN Answer("none", 401, "Unauthorized", PyNone, rows)
    ELSE IF data = PyNone \/ data.keys = {}
    THEN Answer("none", 400, "No data received", PyNone, rows)
    ELSE LET stored == store_packet(rows, data, now)
         IN  IF stored.exc # "none"
             THEN Answer(stored.exc, 500, "Internal Server Error", PyNone,
                         rows)
             ELSE Answer("none", 200, "", data, stored.rows)

\* no POST yet
NoRequest ==
    [auth_header |-> PyNone, data |-> PyNone, now |-> Datetime(""),
     answer |-> Answer("none", 0, "", PyNone, <<>>)]

\* a client posts to /api/packet-data
Post(auth_header, data, now) ==
    LET answer == receive_packet_data(auth_header, data, table, now)
    IN  /\ table' = answer.rows
        /\ http' = [auth_header |-> auth_header, data |-> data, now |-> now,
                    answer |-> answer]
        /\ UNCHANGED <<commands, session, turn, chan, geo, telemetry, setting>>

NextServer ==
    \E auth_header \in AuthHeaders : \E data \in Bodies :
       \E now \in ServerTimes : Post(auth_header, data, now)

Init ==
    /\ commands = <<>>
    /\ session = [n \in Nodes |-> "absent"]
    /\ turn = Turn("init", NoPacket, <<>>, FALSE, <<>>, PyNone, "none", <<>>)
    /\ threads = [p \in Producers |-> [todo |-> <<>>, calls |-> <<>>]]
    /\ topic = <<>>
    /\ mesh = <<>>
    /\ geo = NoHaversine
    /\ telemetry = NoTelemetry
    /\ table = <<>>
    /\ http = NoRequest
    /\ setting = NoSetting

Next ==
    \/ \E c \in CommandClasses : \E lo \in LoadOutcomes(c) :
          AddCommand(c, lo) /\ UNCHANGED <<chan, heat>>
    \/ \E p \in Packets : \E o \in Outcomes(p) :
          OnText(p, o) /\ UNCHANGED <<chan, heat>>

Spec == Init /\ [][Next]_vars

\* the life cycle of the registry: commands are added, one by one or as a
\* list, and shut down
NextLoad ==
    \/ \E c \in CommandClasses : \E lo \in LoadOutcomes(c) :
          AddCommand(c, lo) /\ UNCHANGED <<chan, heat>>
    \/ \E batch \in Batches : AddCommands(batch) /\ UNCHANGED <<chan, heat>>
    \/ \E outs \in [1..Len(commands) -> {"ok", "not_implemented", "error"}] :
          /\ \A i \in 1..Len(commands) : outs[i] \in ShutdownOutcomes(commands[i])
          /\ Shutdown(outs)
          /\ UNCHANGED <<chan, heat>>

SpecLoad == Init /\ [][NextLoad]_vars

\* the text packets of the reply channel's runs
ChannelPackets ==
    { Packet(me, "!a", <<"p","i","n","g">>, 8, -70, 3, 3),
      Packet(me, "!b", <<"f","o","o">>, 8, -70, 3, 3) }

\* the reply channel: the receive thread and the worker threads publish on
\* dm_topic, and the subscriber transmits
NextChannel ==
    \/ AddCommand(PluginFo, "ok") /\ UNCHANGED <<chan, heat>>
    \/ \E p \in ChannelPackets : \E o \in Outcomes(p) \cap {"none"} :
          \E work \in {<<>>} \cup Works(p.fromId) : Receive(p, o, work)
    \/ \E w \in Workers : WorkerPublish(w)
    \/ \E p \in Producers : \E k \in 1..MaxPublished : Deliver(p, k, TRUE)

SpecChannel == Init /\ [][NextChannel]_vars

\* the text packets of the runs in which transmission may fail
DeliveryPackets ==
    { Packet(me, "!b", <<"f","o","o">>, 8, -70, 3, 3) }

\* the reply channel over an interface whose sendText may raise
NextDelivery ==
    \/ AddCommand(PluginFo, "ok") /\ UNCHANGED <<chan, heat>>
    \/ \E p \in DeliveryPackets : \E o \in Outcomes(p) \cap {"none"} :
          \E work \in {<<>>} \cup {w \in Works(p.fromId) : w[1].message = PyNone} :
             Receive(p, o, work)
    \/ \E w \in Workers : WorkerPublish(w)
    \/ \E p \in Producers : \E k \in 1..MaxPublished : \E sent \in BOOLEAN :
          Deliver(p, k, sent)

SpecDelivery == Init /\ [][NextDelivery]_vars

NextPacket == \E c \in PacketCases : OnPacket(c)

SpecPacket == Init /\ [][NextPacket]_vars

SpecServer == Init /\ [][NextServer]_vars

\* the calls of get_setting: of Heatmap.load, on any settings
InitSetting ==
    /\ commands = <<>>
    /\ session = [n \in Nodes |-> "absent"]
    /\ turn = Turn("init", NoPacket, <<>>, FALSE, <<>>, PyNone, "none", <<>>)
    /\ threads = [p \in Producers |-> [todo |-> <<>>, calls |-> <<>>]]
    /\ topic = <<>>
    /\ mesh = <<>>
    /\ geo = NoHaversine
    /\ telemetry = NoTelemetry
    /\ table = <<>>
    /\ http = NoRequest
    /\ \E call \in SettingCalls : \E config \in Configs :
          setting = Calling(call, config)

NextSetting == GetSetting

SpecSetting == InitSetting /\ [][NextSetting]_vars

\* the calls of haversine: on any two points of the map
InitHaversine ==
    /\ commands = <<>>
    /\ session = [n \in Nodes |-> "absent"]
    /\ turn = Turn("init", NoPacket, <<>>, FALSE, <<>>, PyNone, "none", <<>>)
    /\ threads = [p \in Producers |-> [todo |-> <<>>, calls |-> <<>>]]
    /\ topic = <<>>
    /\ mesh = <<>>
    /\ telemetry = NoTelemetry
    /\ table = <<>>
    /\ http = NoRequest
    /\ setting = NoSetting
    /\ \E a \in Points : \E b \in Points :
          geo = [lat1 |-> a.latitude, lon1 |-> a.longitude,
                 lat2 |-> b.latitude, lon2 |-> b.longitude, miles |-> PyNone]

NextHaversine == Haversine

SpecHaversine == InitHaversine /\ [][NextHaversine]_vars

\* the text packets for the commands that answer from a thread
WorkerPackets ==
    { Packet(me, "!a", <<"r","s","s"," ","b","l","o","g">>, 8, -70, 3, 3),
      Packet(me, "!b", <<"l","l","m"," ","h","i">>, 8, -70, 3, 3) }

\* the threads a packet may start
WorkerWorks(p, o) ==
    { <<>>, RssFetch(p.payload, p.fromId, o), LlmChat(p.payload, p.fromId, o) }

\* rss and llm: on_text invokes them, their threads publish, the subscriber
\* transmits
NextWorkers ==
    \/ AddCommands(<< <<RSS, "ok">>, <<ChatGPT, "ok">> >>) /\ UNCHANGED <<chan, heat>>
    \/ \E p \in WorkerPackets : \E o \in Outcomes(p) :
          \E work \in WorkerWorks(p, o) : Receive(p, o, work)
    \/ \E w \in Workers : WorkerPublish(w)
    \/ \E p \in Producers : \E k \in 1..MaxPublished : Deliver(p, k, TRUE)

SpecWorkers == Init /\ [][NextWorkers]_vars


-----------------------------------------------------------------------------
(* Session state of a sender, as the program holds it *)

\* on_text handled a text addressed to the local node in the last call
Handled == turn.op = "on_text" /\ turn.packet.toId = me

\* the built-in words of on_text: ping, help and help <word>
IsBuiltIn(msg) ==
    \/ IsPing(msg)
    \/ Lower(msg) = <<"h","e","l","p">>
    \/ IsHelpPrefix(msg)

\* on_text answers msg with a command's help and returns (lines 160-166)
HelpShortCircuit(msg) ==
    IsHelpPrefix(msg) /\ get_command_handler(Lower(Drop(msg, 5))) # 0

\* the loaded commands that the session entry of node names: Echo.invoke
\* stores its own name, "Echo", for the sender it talks to
PendingCommand(node) ==
    {i \in 1..Len(commands) : commands[i].cls = session[node]}

\* no session entry, or a falsy one
Idle(node) == session[node] \in {"absent", "False"}

\* the loaded commands that report continue_session(node)
Owners(node) ==
    {i \in 1..Len(commands) : continue_session(commands[i], node)}

-----------------------------------------------------------------------------
(* Claims *)

\* C1 (as claimed): when a sender is pending on a loaded command that
\* reports continue_session for it, the next message of that sender that is
\* no built-in is passed unmodified to that command's invoke, no other
\* command is invoked and get_command_handler is not called in that turn.
C1_Continuation ==
    [][ \A i \in 1..Len(commands) :
          ( /\ turn'.op = "on_text"
            /\ turn'.packet.toId = me
            /\ ~IsBuiltIn(turn'.packet.payload)
            /\ i \in PendingCommand(turn'.packet.fromId)
            /\ continue_session(commands[i], turn'.packet.fromId) )
          => /\ turn'.invoked = <<[command |-> commands[i].command,
                                   message |-> turn'.packet.payload,
                                   node |-> turn'.packet.fromId]>>
             /\ turn'.lookups = <<>> ]_vars

C3_RecordsPending ==
    [][ \A node \in Nodes :
        ( /\ turn'.op = "on_text"
          /\ turn'.packet.toId = me
          /\ turn'.packet.fromId = node
          /\ ~IsBuiltIn(turn'.packet.payload)
          /\ Idle(node) )
        => ~Idle(node)' ]_vars

\* C4 (as claimed): for every sender at most one loaded command reports
\* continue_session, and invoking a command for a sender leaves what every
\* other loaded command reports for that sender as it was.
C4_OneOwner ==
    [][ \A n \in Nodes :
          /\ Cardinality(Owners(n)') <= 1
          /\ \A i \in 1..Len(commands) :
                ( /\ turn'.op = "on_text"
                  /\ Len(turn'.invoked) = 1
                  /\ turn'.invoked[1].node = n
                  /\ turn'.invoked[1].command # commands[i].command )
                => continue_session(commands[i], n)' = continue_session(commands[i], n)
      ]_vars

\* C5: a text "ping" addressed to the local node is answered with exactly
\* one reply to the sender that gives the hop count hopStart - hopLimit, the
\* SNR and the RSSI of the packet, and no command is invoked, whatever the
\* registry and the session hold.
C5_PingReply ==
    (Handled /\ IsPing(turn.packet.payload))
    => /\ turn.published =
            <<[message |->
                 PyStr(<<"Received ping from node ", turn.packet.fromId,
                         "\nHops: ">>
                       \o Fmt(turn.packet.hopStart - turn.packet.hopLimit)
                       \o <<"\nSNR: ">> \o Fmt(turn.packet.rxSnr)
                       \o <<"\nRSSI: ">> \o Fmt(turn.packet.rxRssi)),
               node |-> turn.packet.fromId]>>
       /\ turn.invoked = <<>>
       /\ turn.lookups = <<>>

\* C5 witness: a ping that travelled 5 hops, from a sender whose session
\* entry is set, with commands loaded, has been answered
C5_Witness ==
    /\ Handled
    /\ turn.packet.payload = <<"p","i","n","g">>
    /\ turn.packet.hopStart - turn.packet.hopLimit = 5
    /\ session[turn.packet.fromId] = "Echo"
    /\ Len(commands) >= 2
    /\ Len(turn.published) = 1


\* "help", or a message that begins with "help "
IsHelp(msg) == Lower(msg) = <<"h","e","l","p">> \/ IsHelpPrefix(msg)

\* C6 (as claimed): a message that is "help" or begins with "help " is
\* answered with one built-in reply in the same turn, never reaches regular
\* routing or any invoke, and leaves the session state unchanged.
C6_HelpShortCircuits ==
    [][ ( /\ turn'.op = "on_text"
          /\ turn'.packet.toId = me
          /\ IsHelp(turn'.packet.payload) )
        => /\ Len(turn'.published) = 1
           /\ ~turn'.routed
           /\ turn'.invoked = <<>>
           /\ session' = session ]_vars

\* C6 (amended): "help <word>" whose word resolves to a loaded command is
\* answered with one reply in the same turn without regular routing or any
\* invoke and with the session state unchanged; "help" alone, and
\* "help <word>" whose word resolves to nothing, fall through to regular
\* routing, which answers with the global help, invokes nothing and leaves
\* the session state unchanged unless a loaded command word is a prefix of
\* the message.
C6_HelpAmended ==
    [][ ( /\ turn'.op = "on_text"
          /\ turn'.packet.toId = me
          /\ IsHelp(turn'.packet.payload) )
        => IF HelpShortCircuit(turn'.packet.payload)
           THEN /\ Len(turn'.published) = 1
                /\ turn'.published[1].node = turn'.packet.fromId
                /\ ~turn'.routed
                /\ turn'.invoked = <<>>
                /\ session' = session
           ELSE /\ turn'.routed
                /\ get_command_handler(Lower(turn'.packet.payload)) = 0
                   => /\ turn'.published =
                            <<[message |-> PyStr(help_message),
                               node |-> turn'.packet.fromId]>>
                      /\ turn'.invoked = <<>>
                      /\ session' = session ]_vars

\* C6 witness: with commands loaded, "help x", whose word resolves to
\* nothing, went through regular routing and was answered with the global
\* help, while the sender's session entry stayed as echo had set it
C6_Witness ==
    /\ Handled
    /\ turn.packet.payload = <<"h","e","l","p"," ","x">>
    /\ Len(commands) = 2
    /\ session[turn.packet.fromId] = "Echo"
    /\ turn.routed
    /\ turn.invoked = <<>>
    /\ turn.lookups = <<<<"x">>, turn.packet.payload>>
    /\ turn.published = <<[message |-> PyStr(help_message),
                           node |-> turn.packet.fromId]>>

\* C7: "help <w>" whose <w> resolves to the loaded command d is answered
\* with one reply: d's description, a blank line and d's help text; the one
\* of the two that is set when only one is; "No help for this command" when
\* neither is.
C7_HelpCommand ==
    (Handled /\ HelpShortCircuit(turn.packet.payload))
    => LET d == commands[get_command_handler(Lower(Drop(turn.packet.payload, 5)))]
           text == IF d.description # <<>> /\ d.help # <<>>
                   THEN d.description \o <<"\n\n">> \o d.help
                   ELSE IF d.description # <<>> THEN d.description
                   ELSE IF d.help # <<>> THEN d.help
                   ELSE <<"No help for this command">>
       IN  turn.published = <<[message |-> PyStr(text),
                               node |-> turn.packet.fromId]>>

\* C7 witness: "help echo" has been answered with echo's description and
\* help text while echo is the command that the word resolves to
C7_Witness ==
    /\ Handled
    /\ turn.packet.payload = <<"h","e","l","p"," ","e","c","h","o">>
    /\ get_command_handler(<<"e","c","h","o">>) # 0
    /\ commands[get_command_handler(<<"e","c","h","o">>)].cls = "Echo"
    /\ turn.published =
         <<[message |-> PyStr(<<"'echo' repeats your message back to you",
                                "\n\n",
                                "'echo <repeat this message>', or 'exit'">>),
            node |-> turn.packet.fromId]>>

\* the command that regular routing finds for the message of the last turn
Resolved == get_command_handler(Lower(turn.packet.payload))

\* C8: in regular routing, when the lowercased message resolves to d, d's
\* invoke is called once with the message as received and the sender; a
\* non-empty text it returns is published as one reply to the sender, and
\* an empty or absent return value publishes nothing in that turn.
C8_InvokeAndReply ==
    (Handled /\ turn.routed /\ Resolved # 0)
    => /\ turn.invoked = <<[command |-> commands[Resolved].command,
                            message |-> turn.packet.payload,
                            node |-> turn.packet.fromId]>>
       /\ (turn.exc = "none" /\ Truthy(turn.ret))
          => turn.published = <<[message |-> turn.ret,
                                 node |-> turn.packet.fromId]>>
       /\ (turn.exc = "none" /\ ~Truthy(turn.ret)) => turn.published = <<>>

\* C8 witness: "Echo Hi" resolved to echo, which was invoked with the
\* message in its original case and whose reply was published
C8_Witness ==
    /\ Handled
    /\ turn.routed
    /\ turn.packet.payload = <<"E","c","h","o"," ","H","i">>
    /\ Resolved # 0
    /\ commands[Resolved].cls = "Echo"
    /\ turn.published =
         <<[message |-> PyStr(<<"H","i",
                                "\n\nEnter some more text, or 'exit' to quit">>),
            node |-> turn.packet.fromId]>>

RECURSIVE Listing(_)
\* the command words from position i on, in registration order, each but
\* the last followed by ", "
Listing(i) ==
    IF i > Len(commands) THEN <<>>
    ELSE commands[i].command
         \o (IF i < Len(commands) THEN <<", ">> ELSE <<>>)
         \o Listing(i + 1)

\* C9: in regular routing, when the message resolves to no loaded command,
\* one reply with the global help text, which lists every loaded command
\* word in registration order, is published to the sender and no command is
\* invoked (DoorManager has no setting that names a catch-all handler).
C9_GlobalHelp ==
    (Handled /\ turn.routed /\ Resolved = 0)
    => /\ turn.published =
            <<[message |->
                 PyStr(<<"Hi, I am a bot.\n\nTry one of these commands: ">>
                       \o Listing(1) \o <<" or 'help <command>'.">>),
               node |-> turn.packet.fromId]>>
       /\ turn.invoked = <<>>

\* C9 witness: with two commands loaded, a word that matches neither was
\* answered with the global help
C9_Witness ==
    /\ Handled
    /\ turn.routed
    /\ Resolved = 0
    /\ Len(commands) = 2
    /\ commands[1].command # commands[2].command
    /\ Len(turn.published) = 1

\* the last turn was dispatched as on_text dispatches any message
DispatchedNormally ==
    /\ C5_PingReply
    /\ C7_HelpCommand
    /\ C8_InvokeAndReply
    /\ C9_GlobalHelp

\* C10: when the invoke of the resolved command raises CommandRunError, one
\* reply "Command to '<word>' failed." with that command's word is published
\* to the sender, the registry is unchanged, and the messages that follow are
\* dispatched as usual.
C10_RunError ==
    [][ /\ ( turn'.op = "on_text" /\ turn'.exc = "CommandRunError" )
           => /\ get_command_handler(Lower(turn'.packet.payload)) # 0
              /\ turn'.published =
                   <<[message |->
                        PyStr(<<"Command to '">>
                              \o commands[get_command_handler(
                                     Lower(turn'.packet.payload))].command
                              \o <<"' failed.">>),
                      node |-> turn'.packet.fromId]>>
              /\ commands' = commands
        /\ ( /\ turn.op = "on_text"
             /\ turn.exc = "CommandRunError"
             /\ turn'.op = "on_text" )
           => DispatchedNormally' ]_vars

\* C10 witness: a command's invoke raised CommandRunError and the sender was
\* told that the command failed
C10_Witness ==
    /\ Handled
    /\ turn.exc = "CommandRunError"
    /\ Len(turn.invoked) = 1
    /\ turn.published =
         <<[message |-> PyStr(<<"Command to '", "f", "o", "' failed.">>),
            node |-> turn.packet.fromId]>>


\* the try of on_text (lines 171-174) catches CommandRunError and nothing
\* else: any other exception of invoke leaves on_text
Propagates(exc) == exc \notin {"none", "CommandRunError"}

\* C11 (as claimed): whatever exception a command's invoke raises, on_text
\* completes without propagating it.
C11_NoEscape == turn.op = "on_text" => ~Propagates(turn.exc)

\* the texts get_command_handler is applied to
ResolveTexts == Payloads \cup {Lower(p) : p \in Payloads} \cup {<<>>}

\* word is a literal prefix of text: text is word followed by some rest
LiteralPrefix(word, text) ==
    \E k \in 0..Len(text) : text = word \o SubSeq(text, k + 1, Len(text))

\* C12: get_command_handler(text) is the first command, in registration
\* order, whose word is a literal prefix of text, and None when no word is;
\* so when one word only is a prefix, the result is that command wherever it
\* stands.  on_text applies it to the lowercased message.
C12_Resolve ==
    /\ \A t \in ResolveTexts :
         LET h == get_command_handler(t)
             matches == {i \in 1..Len(commands) :
                            LiteralPrefix(commands[i].command, t)}
         IN  /\ h \in 0..Len(commands)
             /\ h = 0 <=> matches = {}
             /\ h # 0 => h \in matches /\ \A j \in matches : h <= j
             /\ Cardinality(matches) = 1 => matches = {h}
    /\ (Handled /\ turn.routed)
       => /\ turn.lookups[Len(turn.lookups)] = Lower(turn.packet.payload)
          /\ turn.invoked # <<>>
             => turn.invoked[1].command =
                  commands[get_command_handler(Lower(turn.packet.payload))].command

\* C12 witness: with "ec" registered before "echo", the message "Echo Hi"
\* was looked up in lowercase and went to "ec", the first of the two words
\* that are prefixes of it
C12_Witness ==
    /\ Handled
    /\ turn.routed
    /\ turn.packet.payload = <<"E","c","h","o"," ","H","i">>
    /\ Len(commands) = 2
    /\ commands[1].command = <<"e","c">>
    /\ commands[2].command = <<"e","c","h","o">>
    /\ turn.invoked # <<>>
    /\ turn.invoked[1].command = <<"e","c">>


-----------------------------------------------------------------------------
(* Claims on the registry's life cycle, checked under SpecLoad *)

\* C13: after any sequence of add_command and add_commands calls, duplicate
\* registrations and failing load hooks included, the registry holds at most
\* one command per command word.
C13_UniqueWords ==
    \A i, j \in 1..Len(commands) :
        commands[i].command = commands[j].command => i = j

\* C13 witness: a list that registers a loaded word again has been given to
\* add_commands, and the registry holds two commands
C13_Witness ==
    /\ turn.op = "add_commands"
    /\ turn.exc = "CommandLoadError"
    /\ Len(commands) = 2
    /\ \E k \in 1..Len(turn.args) : turn.args[k].command = commands[1].command

\* C14: registering a class whose word is that of a loaded command raises
\* CommandLoadError before the class's load hook runs and leaves the
\* registry as it was, the first registration at its place.
C14_DuplicateRejected ==
    [][ ( /\ turn'.op = "add_command"
          /\ \E i \in 1..Len(commands) :
                commands[i].command = turn'.args[1].command )
        => /\ turn'.exc = "CommandLoadError"
           /\ turn'.hooks = <<>>
           /\ commands' = commands ]_vars

\* C14 witness: echo, loaded first of two commands, was registered again
\* and add_command raised CommandLoadError
C14_Witness ==
    /\ turn.op = "add_command"
    /\ turn.exc = "CommandLoadError"
    /\ turn.hooks = <<>>
    /\ Len(commands) = 2
    /\ commands[1].cls = "Echo"
    /\ turn.args[1].command = commands[1].command

\* C15: when the load hook raises CommandLoadError or any other exception,
\* add_command returns without raising and the registry is unchanged; a
\* class with no load hook (CommandActionNotImplemented) is appended.
C15_LoadFailureSkipped ==
    [][ ( /\ turn'.op = "add_command"
          /\ \A i \in 1..Len(commands) :
                commands[i].command # turn'.args[1].command )
        => /\ turn'.exc = "none"
           /\ turn'.hooks = <<[hook |-> "load",
                               command |-> turn'.args[1].command,
                               outcome |-> turn'.args[1].load]>>
           /\ turn'.args[1].load \in {"load_error", "error"}
              => commands' = commands
           /\ turn'.args[1].load = "not_implemented"
              => /\ Len(commands') = Len(commands) + 1
                 /\ SubSeq(commands', 1, Len(commands)) = commands
                 /\ commands'[Len(commands')].command = turn'.args[1].command
      ]_vars

\* C15 witness: with a command loaded, a class whose load hook raised an
\* exception that is no CommandLoadError was offered and left out
C15_Witness ==
    /\ turn.op = "add_command"
    /\ turn.exc = "none"
    /\ turn.args[1].load = "error"
    /\ Len(turn.hooks) = 1
    /\ Len(commands) = 1
    /\ commands[1].command # turn.args[1].command

\* C16 (as claimed): when add_commands finishes, every class of the list
\* whose load hook succeeds (or is missing) has its word in the registry,
\* whatever failed to load before it in the list.
C16_BatchKeepsBooting ==
    turn.op = "add_commands"
    => \A k \in 1..Len(turn.args) :
          turn.args[k].load \in {"ok", "not_implemented"}
          => \E i \in 1..Len(commands) :
                commands[i].command = turn.args[k].command

-----------------------------------------------------------------------------
(* Claims on the reply channel, checked under SpecChannel *)

\* the thread that published the message of the i-th sendText call
ProducerOf(i) == topic[mesh[i].of].by

\* the messages thread p has published whose pub.sendMessage call is open:
\* DoorManager.send_dm has not yet run on them
Waiting(p) == { threads[p].calls[k] : k \in 1..Len(threads[p].calls) }

\* C18: every interface.sendText(text, destination) is the delivery of a
\* message published on dm_topic before it, with that text and that
\* destination; the step that transmits is no step of on_text, of a
\* handler's invoke or of a worker's own code: it publishes nothing, starts
\* no thread and leaves the record of the last on_text call alone.
C18_TransmitIsDelivery ==
    [][ mesh' # mesh
        => /\ Len(mesh') = Len(mesh) + 1
           /\ SubSeq(mesh', 1, Len(mesh)) = mesh
           /\ \E j \in 1..Len(topic) :
                 /\ topic[j].message = PyStr(mesh'[Len(mesh')].text)
                 /\ topic[j].node = mesh'[Len(mesh')].destinationId
           /\ topic' = topic
           /\ turn' = turn
           /\ \A p \in Producers :
                 Len(threads'[p].todo) <= Len(threads[p].todo) ]_vars

\* C18 witness: a reply of on_text and a reply of a worker thread have both
\* been transmitted, to different nodes
C18_Witness ==
    \E i, j \in 1..Len(mesh) :
        /\ ProducerOf(i) = Dispatcher
        /\ ProducerOf(j) \in Workers
        /\ mesh[i].destinationId # mesh[j].destinationId
        /\ mesh[i].text # mesh[j].text

\* C19 (as claimed): while a reply that on_text published is waiting to be
\* transmitted, on_text has finished and the next inbound text can be
\* handled.
C19_ReceiveNotBlocked ==
    Waiting(Dispatcher) # {} => CanReceive

\* C20: the replies published by one producer are transmitted in the order
\* in which that producer published them, however the receive thread and
\* the worker threads interleave.
C20_ProducerOrder ==
    \A i, j \in 1..Len(mesh) :
        (i < j /\ ProducerOf(i) = ProducerOf(j)) => mesh[i].of < mesh[j].of

\* C20 witness: a worker thread's two replies have been transmitted with a
\* reply of on_text, published before the worker's second, between them
C20_Witness ==
    \E i, j, k \in 1..Len(mesh) :
        /\ i < k /\ k < j
        /\ ProducerOf(i) \in Workers
        /\ ProducerOf(j) = ProducerOf(i)
        /\ ProducerOf(k) = Dispatcher
        /\ mesh[k].of < mesh[j].of

-----------------------------------------------------------------------------
(* Claims on delivery over a failing interface, checked under SpecDelivery *)

\* the sendText calls made for the j-th published message
Handed(j) == { i \in 1..Len(mesh) : mesh[i].of = j }

\* the pub.sendMessage call of the j-th published message has not returned
Open(j) == \E p \in Producers : j \in Waiting(p)

\* C21: once the publication of a message is over, a message whose text is
\* a str has been handed to interface.sendText exactly once, whether
\* sendText returned or raised, and a message that is no str not at all; no
\* message is handed over before or after that.
C21_FireAndForget ==
    \A j \in 1..Len(topic) :
        Cardinality(Handed(j)) =
            IF Open(j) \/ topic[j].message.type # "str" THEN 0 ELSE 1

\* C21 witness: a transmission has failed, another has succeeded, a message
\* that is no str has been dropped, and no publication is open
C21_Witness ==
    /\ \E i \in 1..Len(mesh) : ~mesh[i].sent
    /\ \E i \in 1..Len(mesh) : mesh[i].sent
    /\ \E j \in 1..Len(topic) : topic[j].message.type # "str"
    /\ \A j \in 1..Len(topic) : ~Open(j)

-----------------------------------------------------------------------------
(* Claims on the commands that answer from a thread, checked under
   SpecWorkers *)

\* the last on_text call invoked rss or llm
Offloaded(t) ==
    /\ t.op = "on_text"
    /\ t.invoked # <<>>
    /\ t.invoked[1].command \in {RSS.command, ChatGPT.command}

\* a step of a thread started by run_in_thread: it makes one of its send_dm
\* calls, or one of its pub.sendMessage calls returns
WorkerStep ==
    \E w \in Workers :
        \/ Len(threads'[w].todo) < Len(threads[w].todo)
        \/ threads'[w].calls # threads[w].calls

\* C22: an on_text call that invokes rss or llm gets None back without an
\* exception and publishes nothing; and a step of a worker thread leaves the
\* registry, every sender's session state and the record of the on_text
\* call alone: all it does is publish on dm_topic or have its publication
\* delivered.
C22_OffloadedWork ==
    [][ /\ Offloaded(turn')
           => /\ turn'.ret = PyNone
              /\ turn'.exc = "none"
              /\ turn'.published = <<>>
              /\ turn' # turn => topic' = topic
        /\ WorkerStep
           => /\ commands' = commands
              /\ session' = session
              /\ turn' = turn
              /\ \/ /\ Len(topic') = Len(topic) + 1
                    /\ topic'[Len(topic')].by \in Workers
                    /\ mesh' = mesh
                 \/ /\ topic' = topic
                    /\ Len(mesh') <= Len(mesh) + 1 ]_vars

\* C22 witness: the headlines that rss's thread published for !a have been
\* transmitted, and the last on_text call invoked llm
C22_Witness ==
    /\ Offloaded(turn)
    /\ turn.invoked[1].command = ChatGPT.command
    /\ \E i \in 1..Len(mesh) :
          /\ ProducerOf(i) \in Workers
          /\ mesh[i].text = build_reply(FeedTitles)
          /\ mesh[i].destinationId = "!a"

\* C23 (as claimed): once on_text has invoked rss or llm, whatever the feed
\* or the completion service does, a text reply to the sender is on its
\* way: a worker thread has it yet to publish, or has published it.
C23_FailureReplied ==
    Offloaded(turn)
    => \/ \E w \in Workers :
             /\ threads[w].todo # <<>>
             /\ Truthy(threads[w].todo[1].message)
             /\ threads[w].todo[1].node = turn.packet.fromId
       \/ \E j \in 1..Len(topic) :
             /\ topic[j].by \in Workers
             /\ Truthy(topic[j].message)
             /\ topic[j].node = turn.packet.fromId

-----------------------------------------------------------------------------
(* Claims on haversine, checked under SpecHaversine *)

\* C30: haversine(a, b) = haversine(b, a); it is 0 for identical
\* coordinates; and with R = 3958.8 miles Austin and Dallas are 182 miles
\* apart, to within a mile.
C30_Haversine ==
    geo.miles # PyNone
    => /\ geo.miles.num = haversine(geo.lat2, geo.lon2, geo.lat1, geo.lon1)
       /\ (geo.lat1 = geo.lat2 /\ geo.lon1 = geo.lon2) => geo.miles.num = 0
       /\ ( /\ geo.lat1 = Austin.latitude /\ geo.lon1 = Austin.longitude
            /\ geo.lat2 = Dallas.latitude /\ geo.lon2 = Dallas.longitude )
          => (geo.miles.num >= 18100 /\ geo.miles.num <= 18300)

\* C30 witness: haversine has been called from Dallas to Austin
C30_Witness ==
    /\ geo.miles # PyNone
    /\ geo.lat1 = Dallas.latitude /\ geo.lon1 = Dallas.longitude
    /\ geo.lat2 = Austin.latitude /\ geo.lon2 = Austin.longitude
    /\ geo.miles.num > 0


-----------------------------------------------------------------------------
(* The telemetry filter *)

\* the last call of on_packet handed a data dict on: it built one, or
\* posted one
Forwarded == telemetry.result.record # <<>> \/ telemetry.result.posts # <<>>

\* C24: on_packet builds and forwards a record only for a packet whose
\* derived hop count is exactly 0; a packet of any other hop count is
\* discarded at the hop gate, whatever its position, SNR and RSSI are.
C24_HopZeroOnly ==
    LET hop_count == hop_count_of(telemetry.packet, telemetry.node_info)
    IN  /\ Forwarded => hop_count = PyInt(0)
        /\ telemetry.result.gate \notin {"init", "ignored", "decoded", "no_position"}
             /\ hop_count # PyInt(0)
           => /\ telemetry.result.gate = "hops"
              /\ telemetry.result.exc = "none"
              /\ ~Forwarded

\* a packet two hops away with a position, an SNR and an RSSI was discarded
C24_Witness ==
    /\ telemetry.result.gate = "hops"
    /\ telemetry.result.hop_count = PyInt(2)
    /\ telemetry.packet.position.type = "dict"
    /\ telemetry.packet.position.latitude # PyNone
    /\ telemetry.packet.rxSnr # PyNone
    /\ telemetry.packet.rxRssi # PyNone


\* on_packet got as far as deriving a hop count
PastPosition ==
    telemetry.result.gate \notin {"init", "ignored", "decoded", "no_position"}

\* C25: the derived hop count is the sender's cached hop-count field when
\* there is one, also when that is 0; otherwise hopStart - hopLimit when the
\* packet has both; otherwise hopLimit when it has that; otherwise 0.
C25_HopCount ==
    LET cached == telemetry.node_info.hopsAway
        hopStart == telemetry.packet.hopStart
        hopLimit == telemetry.packet.hopLimit
    IN  PastPosition =>
           telemetry.result.hop_count =
              IF telemetry.node_info.present /\ cached.type = "int"
              THEN cached
              ELSE IF hopStart.type = "int" /\ hopLimit.type = "int"
              THEN PyInt(hopStart.num - hopLimit.num)
              ELSE IF hopLimit.type = "int" THEN hopLimit
              ELSE PyInt(0)

\* a cached hop count of 0 overrode the packet's own two hops, and the
\* record was built
C25_Witness ==
    /\ telemetry.node_info.present
    /\ telemetry.node_info.hopsAway = PyInt(0)
    /\ telemetry.packet.hopStart = PyInt(3)
    /\ telemetry.packet.hopLimit = PyInt(1)
    /\ telemetry.result.hop_count = PyInt(0)
    /\ telemetry.result.gate = "passed"


\* the last packet came from farther than the distance threshold
IsFar ==
    telemetry.result.distance.num > telemetry.settings.distance_filter

\* the last packet was heard at more than the SNR threshold
IsStrong == telemetry.packet.rxSnr.num > telemetry.settings.snr_filter

\* C26: a packet that has passed the earlier gates is discarded exactly when
\* its distance is strictly greater than the distance threshold and its SNR
\* strictly greater than the SNR threshold; any other packet (far and weak,
\* near and strong, at a threshold) is accepted and its record built.
C26_FarStrong ==
    telemetry.result.gate \in {"far_strong", "passed"} =>
       /\ telemetry.result.gate = "far_strong" <=> IsFar /\ IsStrong
       /\ telemetry.result.gate = "far_strong" => ~Forwarded
       /\ telemetry.result.gate = "passed" =>
             /\ Len(telemetry.result.record) = 1
             /\ telemetry.result.record[1].distance =
                   telemetry.result.distance.num

\* with the thresholds 5 miles and 6 dB, a packet from about 50 miles away
\* heard at 8 dB was discarded
C26_Witness ==
    /\ telemetry.settings.distance_filter = 500
    /\ telemetry.settings.snr_filter = 6
    /\ telemetry.result.gate = "far_strong"
    /\ telemetry.result.distance.num \in 4950..5050
    /\ telemetry.packet.rxSnr = PyInt(8)


\* C27: the position on_packet uses, for the distance and in the record it
\* forwards, is the one embedded in the packet when there is one, also when
\* the sender has another position cached; otherwise the sender's cached
\* position; with neither, the packet is discarded and no record forwarded.
C27_Position ==
    LET embedded == telemetry.packet.position
        cached == telemetry.node_info.position
        has_embedded == embedded.type = "dict" /\ ~embedded.empty
        has_cached == telemetry.node_info.present /\ cached.type = "dict"
        r == telemetry.result
    IN  r.gate \notin {"init", "ignored", "decoded"} =>
           /\ has_embedded => r.position = embedded
           /\ ~has_embedded /\ has_cached => r.position = cached
           /\ ~has_embedded /\ ~has_cached =>
                 r.gate = "no_position" /\ r.exc = "none" /\ ~Forwarded
           /\ r.distance.type = "int" =>
                 r.distance.num =
                    haversine(telemetry.my_node.position.latitude.num,
                              telemetry.my_node.position.longitude.num,
                              r.position.latitude.num,
                              r.position.longitude.num)
           /\ \A i \in 1..Len(r.record) :
                 /\ r.record[i].latitude = r.position.latitude.num
                 /\ r.record[i].longitude = r.position.longitude.num

\* a record was built from the position in the packet although the sender
\* had another position cached
C27_Witness ==
    /\ telemetry.packet.position = Near
    /\ telemetry.node_info.present
    /\ telemetry.node_info.position = Nearer
    /\ telemetry.result.gate = "passed"
    /\ telemetry.result.record[1].latitude = Near.latitude.num


\* C28: every record on_packet forwards comes from a sender that is neither
\* the local node nor on the ignore list, and carries the packet's SNR and
\* RSSI; a packet from the local node or an ignored node, or one lacking
\* SNR or RSSI, produces no record.
C28_SenderAndSignal ==
    LET packet == telemetry.packet
        r == telemetry.result
    IN  /\ Forwarded =>
              /\ packet.fromId # me
              /\ packet.fromId \notin ignore_nodes
              /\ packet.rxSnr.type = "int"
              /\ packet.rxRssi.type = "int"
              /\ \A i \in 1..Len(r.record) :
                    /\ r.record[i].node_id = packet.fromId
                    /\ r.record[i].snr = packet.rxSnr.num
                    /\ r.record[i].rssi = packet.rxRssi.num
        /\ r.gate # "init" /\ (packet.fromId = me \/ packet.fromId \in ignore_nodes)
              => r.gate = "ignored" /\ r.exc = "none" /\ ~Forwarded
        /\ r.gate # "init" /\ (packet.rxSnr = PyNone \/ packet.rxRssi = PyNone)
              => ~Forwarded

\* a packet from an ignored node, heard directly with a position, an SNR
\* and an RSSI, was dropped
C28_Witness ==
    /\ telemetry.packet.fromId \in ignore_nodes
    /\ telemetry.packet.position = Near
    /\ telemetry.packet.rxSnr = PyInt(8)
    /\ telemetry.packet.rxRssi = PyInt(-70)
    /\ hop_count_of(telemetry.packet, telemetry.node_info) = PyInt(0)
    /\ telemetry.result.gate = "ignored"


\* the last call of on_packet posted its record and the post failed
PostFailed == telemetry.post = "failed" /\ telemetry.result.posts # <<>>

\* C29: when the post of a record fails, on_packet returns without raising
\* and publishes no reply, and the packet after it is filtered exactly as
\* the same packet is after a post that went through.
C29_ForwardFailure ==
    [][/\ PostFailed' =>
             /\ telemetry'.result.exc = "none"
             /\ telemetry'.result.gate = "passed"
             /\ topic' = topic
             /\ mesh' = mesh
             /\ threads' = threads
       /\ PostFailed =>
             telemetry'.result =
                on_packet(telemetry'.packet, telemetry'.node_info,
                          telemetry'.my_node, telemetry'.post,
                          telemetry'.settings)]_vars

\* the post of the record of a packet that passed every gate failed, and
\* on_packet returned
C29_Witness ==
    /\ PostFailed
    /\ telemetry.result.gate = "passed"
    /\ telemetry.result.exc = "none"
    /\ telemetry.result.posts = telemetry.result.record


-----------------------------------------------------------------------------
(* Claims on the telemetry sink, checked under SpecServer *)

\* a POST has been answered
Posted == http.answer.status # 0

\* the words of the Authorization header of the last POST
AuthWords ==
    IF http.auth_header = PyNone THEN <<>> ELSE Split(http.auth_header.val)

\* C31 (as claimed): a POST is answered 401 when its Authorization header is
\* missing, carries no token or carries another token than the configured
\* one; otherwise 400 when its body is empty; otherwise 200 with the payload
\* echoed.
C31_Responses ==
    Posted =>
       IF Len(AuthWords) < 2 \/ AuthWords[Len(AuthWords)] # AUTH_TOKEN
       THEN http.answer.status = 401
       ELSE IF http.data = PyNone \/ http.data.keys = {}
       THEN http.answer.status = 400
       ELSE http.answer.status = 200 /\ http.answer.received = http.data


\* the rows of rows that are not of node_id
Others(rows, node_id) ==
    { rows[i] : i \in { j \in 1..Len(rows) : rows[j].node_id # node_id } }

\* C32: the table holds at most one row per node_id; an accepted observation
\* leaves in the row of its node_id its own long_name, latitude, longitude,
\* snr and rssi, and leaves the rows of the other nodes as they were; a POST
\* that is not accepted leaves the table as it was.
C32_Upsert ==
    [][Posted' =>
         /\ \A i, j \in 1..Len(table') :
               table'[i].node_id = table'[j].node_id => i = j
         /\ IF http'.answer.status = 200
            THEN /\ \E i \in 1..Len(table') :
                       /\ table'[i].node_id = http'.data.node_id
                       /\ table'[i].long_name = http'.data.long_name
                       /\ table'[i].latitude = http'.data.latitude
                       /\ table'[i].longitude = http'.data.longitude
                       /\ table'[i].snr = http'.data.snr
                       /\ table'[i].rssi = http'.data.rssi
                 /\ Others(table', http'.data.node_id)
                       = Others(table, http'.data.node_id)
            ELSE table' = table]_vars

\* the row of a node was rewritten by a later observation of that node,
\* after the row of another node had been inserted behind it
C32_Witness ==
    /\ Len(table) = 2
    /\ http.answer.status = 200
    /\ http.data = Observation(table[1].node_id, TRUE)
    /\ table[1].long_name = "<longName>"
    /\ table[1].timestamp = Datetime("2024-11-05 10:05:00")
    /\ table[2].timestamp = Datetime("2024-11-05 10:00:00")


\* C33 (as claimed): the row of an accepted observation retains every field
\* of the posted record: read back, it yields the distance and the receive
\* timestamp that were posted, as it does the other fields.
C33_RowRetainsRecord ==
    Posted /\ http.answer.status = 200 =>
       \E i \in 1..Len(table) :
          /\ table[i].node_id = http.data.node_id
          /\ table[i].long_name = http.data.long_name
          /\ table[i].latitude = http.data.latitude
          /\ table[i].longitude = http.data.longitude
          /\ table[i].snr = http.data.snr
          /\ table[i].rssi = http.data.rssi
          /\ table[i].timestamp = PyInt(http.data.timestamp)
          /\ "distance" \in DOMAIN table[i]
          /\ table[i].distance = http.data.distance


-----------------------------------------------------------------------------
(* Claims on get_setting, checked under SpecSetting *)

\* the call of get_setting ended with the option's text as type has it:
\* the text itself, or for int its number, or ValueError when it has none
ReadAs(text) ==
    IF setting.type = "int"
    THEN IF IsDecimal(text.val)
         THEN setting.exc = "none" /\ setting.ret = PyInt(DecimalValue(text.val))
         ELSE setting.exc = "ValueError"
    ELSE setting.exc = "none" /\ setting.ret = text

\* C34: get_setting resolves an option in the plugin's own section whenever
\* the option exists there, also when "global" defines it too, and in
\* "global" only when the plugin's section lacks it.
C34_PluginFirst ==
    setting.done =>
       /\ setting.config.module # PyNone => ReadAs(setting.config.module)
       /\ setting.config.module = PyNone /\ setting.config.global # PyNone
             => ReadAs(setting.config.global)

\* heatmap_port was set to 8080 in the plugin's section and to 90 in
\* "global", and get_setting returned 8080
C34_Witness ==
    /\ setting.done
    /\ setting.type = "int"
    /\ setting.config.module = PyStr(<<"8","0","8","0">>)
    /\ setting.config.global = PyStr(<<"9","0">>)
    /\ setting.ret = PyInt(8080)


\* C38 (as claimed): when the option exists neither in the plugin's section
\* nor in "global", get_setting returns the default it was given.
C38_DefaultReturned ==
    ( /\ setting.done
      /\ setting.config.module = PyNone
      /\ setting.config.global = PyNone )
    => setting.exc = "none" /\ setting.ret = setting.default


-----------------------------------------------------------------------------
(* Further claims on on_text and on_packet *)

\* the last call of on_text invoked echo for node on a text beginning
\* with "echo ", and echo kept the conversation
EchoOwns(node) ==
    /\ Handled
    /\ turn.packet.fromId = node
    /\ Take(Lower(turn.packet.payload), 5) = <<"e","c","h","o"," ">>
    /\ Len(turn.invoked) = 1
    /\ turn.invoked[1].command = Echo.command
    /\ session[node] = "Echo"

\* C35 (as claimed): once a sender has sent "echo <text>", the text "exit"
\* sent as the next message reaches Echo.invoke, is answered with "Goodbye"
\* and leaves echo's continuation for that sender false.
C35_ExitEndsEcho ==
    [][\A node \in Nodes :
          ( /\ EchoOwns(node)
            /\ turn'.op = "on_text"
            /\ turn'.packet.toId = me
            /\ turn'.packet.fromId = node
            /\ Lower(turn'.packet.payload) = <<"e","x","i","t">> )
          => /\ Len(turn'.invoked) = 1
             /\ turn'.invoked[1].command = Echo.command
             /\ turn'.invoked[1].node = node
             /\ turn'.published = Publish(PyStr(<<"Goodbye">>), node)
             /\ session'[node] = "False"]_vars


\* C36: on_text ignores a text packet whose recipient is not the local
\* node, also when its text is "ping" or "help": it publishes no reply,
\* looks up and invokes no command, and leaves the registry and the
\* sessions as they were.
C36_OtherRecipientIgnored ==
    [][(turn'.op = "on_text" /\ turn'.packet.toId # me) =>
          /\ turn'.published = <<>>
          /\ turn'.invoked = <<>>
          /\ turn'.lookups = <<>>
          /\ turn'.exc = "none"
          /\ commands' = commands
          /\ session' = session
          /\ topic' = topic]_vars

\* a "ping" for another node was ignored while echo was loaded and owned
\* the sender's conversation
C36_Witness ==
    /\ turn.op = "on_text"
    /\ turn.packet.toId # me
    /\ IsPing(turn.packet.payload)
    /\ turn.published = <<>>
    /\ commands # <<>>
    /\ session[turn.packet.fromId] = "Echo"


\* C37 (as claimed): on_packet completes normally for every packet, either
\* forwarding one record or discarding the packet: a packet whose position
\* (or the local node's) lacks a coordinate is discarded without raising,
\* and no record is forwarded without latitude, longitude and distance.
C37_CompletesNormally ==
    telemetry.result.gate # "init" =>
       /\ telemetry.result.exc = "none"
       /\ Len(telemetry.result.record) <= 1
       /\ Forwarded =>
             /\ telemetry.result.position.latitude.type = "int"
             /\ telemetry.result.position.longitude.type = "int"
             /\ telemetry.result.distance.type = "int"

====
